---- MODULE Spec2Model ----
(***************************************************************************)
(* A model of the GTDynamics constraint-assembly engine                    *)
(* (DynamicsGraphBuilder, src/dynamics/DynamicsGraph.cpp): the robot is a  *)
(* list of links and a list of joints, a constraint set is the sequence of *)
(* factors a builder call returns, and a thrown std::runtime_error is a    *)
(* result with ok = FALSE and no graph.                                    *)
(***************************************************************************)
EXTENDS Integers, Sequences, FiniteSets, TLC

VARIABLES
    robot,              \* the UniversalRobot handed to the builder
    robots,             \* multiPhaseTrajectoryFG: one robot per phase
    phase_steps,        \* multiPhaseTrajectoryFG: steps of every phase
    transition_graphs,  \* multiPhaseTrajectoryFG: the supplied transition sets
    values,             \* a gtsam::Values assignment the caller holds
    call,               \* the last builder call and its arguments
    ret                 \* what that call returned (or that it threw)

vars == <<robot, robots, phase_steps, transition_graphs, values, call, ret>>

(***************************************************************************)
(* Bounds of the model.                                                    *)
(***************************************************************************)
MaxLinks == 3
MaxJoints == 5
MaxTime == 1
MaxSteps == 2
MaxPhases == 2
MaxDt == 2
MaxVal == 1

(***************************************************************************)
(* Helpers on sequences.                                                   *)
(***************************************************************************)
Range(s) == {s[k] : k \in DOMAIN s}

RECURSIVE Flatten(_)
Flatten(ss) == IF ss = <<>> THEN <<>> ELSE Head(ss) \o Flatten(Tail(ss))

RECURSIVE SumSeq(_)
SumSeq(s) == IF s = <<>> THEN 0 ELSE Head(s) + SumSeq(Tail(s))

(***************************************************************************)
(* Variable keys.  A key is a gtsam::LabeledSymbol (chr, label, index).    *)
(* The key functions are declared in dynamics/DynamicsGraph.h; their       *)
(* encoding is the one print_key decodes: a wrench key is 'F' with label   *)
(* 16 * link + joint, a phase key is 't' with label 0.                     *)
(***************************************************************************)
LabelBase == 16

LabeledSymbol(c, label, j) == [chr |-> c, label |-> label, index |-> j]

PoseKey(i, t) == LabeledSymbol("p", i, t)
TwistKey(i, t) == LabeledSymbol("V", i, t)
TwistAccelKey(i, t) == LabeledSymbol("A", i, t)
WrenchKey(i, j, t) == LabeledSymbol("F", i * LabelBase + j, t)
TorqueKey(j, t) == LabeledSymbol("T", j, t)
JointAngleKey(j, t) == LabeledSymbol("q", j, t)
JointVelKey(j, t) == LabeledSymbol("v", j, t)
JointAccelKey(j, t) == LabeledSymbol("a", j, t)
PhaseKey(k) == LabeledSymbol("t", 0, k)

(***************************************************************************)
(* Results of a builder call: a graph, or a thrown std::runtime_error.     *)
(***************************************************************************)
Returned(g) == [ok |-> TRUE, what |-> "", graph |-> g, vec |-> <<>>]
ReturnedVector(v) == [ok |-> TRUE, what |-> "", graph |-> <<>>, vec |-> v]
Thrown(msg) == [ok |-> FALSE, what |-> msg, graph |-> <<>>, vec |-> <<>>]

WrenchNotDefined == "Wrench factor not defined"
NotImplemented == "runge-kutta and hermite-simpson not implemented yet"

(***************************************************************************)
(* Factors.  keys is the factor's key list in constructor order, model the *)
(* noise model and data what else the constructor is given.                *)
(***************************************************************************)
Factor(type, keys, model, data) ==
    [type |-> type, keys |-> keys, model |-> model, data |-> data]

\* every link is taken as fixed
FixedLinks_All(r) == r.links

FixedLinks(r) == SelectSeq(r.links, LAMBDA l : l.fixed)

\* PriorFactor<Pose3>(PoseKey(i, t), link->getFixedPose(), Constrained::All(6))
PosePrior(link, t) ==
    Factor("PriorFactor", <<PoseKey(link.id, t)>>, "Constrained6", "getFixedPose")

\* PriorFactor<Vector6>(TwistKey(i, t), Vector6::Zero(), Constrained::All(6))
TwistPrior(link, t) ==
    Factor("PriorFactor", <<TwistKey(link.id, t)>>, "Constrained6", "Zero")

\* PriorFactor<Vector6>(TwistAccelKey(i, t), Vector6::Zero(), Constrained::All(6))
TwistAccelPrior(link, t) ==
    Factor("PriorFactor", <<TwistAccelKey(link.id, t)>>, "Constrained6", "Zero")

PoseFactor(joint, t) ==
    Factor("PoseFactor",
           <<PoseKey(joint.parent, t), PoseKey(joint.child, t),
             JointAngleKey(joint.id, t)>>,
           "p_cost_model", "joint")

TwistFactor(joint, t) ==
    Factor("TwistFactor",
           <<TwistKey(joint.parent, t), TwistKey(joint.child, t),
             JointAngleKey(joint.id, t), JointVelKey(joint.id, t)>>,
           "v_cost_model", "joint")

\* the acceleration factor given the parent's twist as its auxiliary input
TwistAccelFactor_ParentTwist(joint, t) ==
    Factor("TwistAccelFactor",
           <<TwistKey(joint.parent, t), TwistAccelKey(joint.parent, t),
             TwistAccelKey(joint.child, t), JointAngleKey(joint.id, t),
             JointVelKey(joint.id, t), JointAccelKey(joint.id, t)>>,
           "a_cost_model", "joint")

TwistAccelFactor(joint, t) ==
    Factor("TwistAccelFactor",
           <<TwistKey(joint.child, t), TwistAccelKey(joint.parent, t),
             TwistAccelKey(joint.child, t), JointAngleKey(joint.id, t),
             JointVelKey(joint.id, t), JointAccelKey(joint.id, t)>>,
           "a_cost_model", "joint")

qFactors(r, t) ==
    LET fixed == FixedLinks(r)
    IN  [k \in 1..Len(fixed) |-> PosePrior(fixed[k], t)]
        \o [k \in 1..Len(r.joints) |-> PoseFactor(r.joints[k], t)]

vFactors(r, t) ==
    LET fixed == FixedLinks(r)
    IN  [k \in 1..Len(fixed) |-> TwistPrior(fixed[k], t)]
        \o [k \in 1..Len(r.joints) |-> TwistFactor(r.joints[k], t)]

\* aFactors without the zero-acceleration priors of the fixed links.
aFactors_NoPriors(r, t) ==
    [k \in 1..Len(r.joints) |-> TwistAccelFactor(r.joints[k], t)]

aFactors(r, t) ==
    LET fixed == FixedLinks(r)
    IN  [k \in 1..Len(fixed) |-> TwistAccelPrior(fixed[k], t)]
        \o [k \in 1..Len(r.joints) |-> TwistAccelFactor(r.joints[k], t)]

(***************************************************************************)
(* dynamicsFactors: one wrench factor per non-fixed link, WrenchFactor0 to *)
(* WrenchFactor4 by the size of link->getJoints(), and a throw for any     *)
(* other size; then per joint the wrench-equivalence and torque factors    *)
(* and, with a planar axis, the planar factor.                             *)
(***************************************************************************)
MaxWrenchDegree == 4

GravityData(gravity) == IF gravity THEN "inertia,gravity" ELSE "inertia"

\* The wrench keys taken by position in getJoints() instead of by joint id.
WrenchFactorN_ByPosition(link, n, t, gravity) ==
    Factor("WrenchFactor",
           <<TwistKey(link.id, t), TwistAccelKey(link.id, t)>>
           \o [k \in 1..n |-> WrenchKey(link.id, k - 1, t)]
           \o <<PoseKey(link.id, t)>>,
           "f_cost_model", GravityData(gravity))

WrenchFactorN(link, n, t, gravity) ==
    Factor("WrenchFactor",
           <<TwistKey(link.id, t), TwistAccelKey(link.id, t)>>
           \o [k \in 1..n |-> WrenchKey(link.id, link.joints[k], t)]
           \o <<PoseKey(link.id, t)>>,
           "f_cost_model", GravityData(gravity))

WrenchSizeDefined(link) == Len(link.joints) <= MaxWrenchDegree

WrenchFactorOf(link, t, gravity) ==
    CASE Len(link.joints) = 0 -> WrenchFactorN(link, 0, t, gravity)
      [] Len(link.joints) = 1 -> WrenchFactorN(link, 1, t, gravity)
      [] Len(link.joints) = 2 -> WrenchFactorN(link, 2, t, gravity)
      [] Len(link.joints) = 3 -> WrenchFactorN(link, 3, t, gravity)
      [] Len(link.joints) = 4 -> WrenchFactorN(link, 4, t, gravity)

NonFixedLinks(r) == SelectSeq(r.links, LAMBDA l : ~l.fixed)

WrenchEquivalenceFactor(joint, t) ==
    Factor("WrenchEquivalenceFactor",
           <<WrenchKey(joint.parent, joint.id, t),
             WrenchKey(joint.child, joint.id, t), JointAngleKey(joint.id, t)>>,
           "f_cost_model", "joint")

\* the torque factor projecting the parent-side wrench
TorqueFactor_ParentSide(joint, t) ==
    Factor("TorqueFactor",
           <<WrenchKey(joint.parent, joint.id, t), TorqueKey(joint.id, t)>>,
           "t_cost_model", "joint")

TorqueFactor(joint, t) ==
    Factor("TorqueFactor",
           <<WrenchKey(joint.child, joint.id, t), TorqueKey(joint.id, t)>>,
           "t_cost_model", "joint")

WrenchPlanarFactor(joint, t) ==
    Factor("WrenchPlanarFactor", <<WrenchKey(joint.child, joint.id, t)>>,
           "Constrained3", "planar_axis")

JointDynamicsFactors(joint, t, planar_axis) ==
    <<WrenchEquivalenceFactor(joint, t), TorqueFactor(joint, t)>>
    \o (IF planar_axis THEN <<WrenchPlanarFactor(joint, t)>> ELSE <<>>)

dynamicsFactors(r, t, gravity, planar_axis) ==
    LET moving == NonFixedLinks(r)
    IN  IF \E k \in 1..Len(moving) : ~WrenchSizeDefined(moving[k])
        THEN Thrown(WrenchNotDefined)
        ELSE Returned(
               [k \in 1..Len(moving) |-> WrenchFactorOf(moving[k], t, gravity)]
               \o Flatten([k \in 1..Len(r.joints) |->
                             JointDynamicsFactors(r.joints[k], t, planar_axis)]))

dynamicsFactorGraph(r, t, gravity, planar_axis) ==
    LET dyn == dynamicsFactors(r, t, gravity, planar_axis)
    IN  IF ~dyn.ok
        THEN dyn
        ELSE Returned(qFactors(r, t) \o vFactors(r, t) \o aFactors(r, t)
                      \o dyn.graph)

\* a contact factor is added for every link listed in contacts
dynamicsFactorGraphWithContacts_Added(r, t, gravity, planar_axis, contacts) ==
    LET built == dynamicsFactorGraph(r, t, gravity, planar_axis)
    IN  IF ~built.ok \/ ~contacts.present THEN built
        ELSE Returned(built.graph
                      \o [k \in 1..Len(contacts.links) |->
                            Factor("ContactFactor", <<PoseKey(contacts.links[k], t)>>,
                                   "supplied", "contact")])

\* dynamicsFactorGraph called with its fifth argument: the body (lines
\* 205-209) never reads contacts
dynamicsFactorGraphWithContacts(r, t, gravity, planar_axis, contacts) ==
    dynamicsFactorGraph(r, t, gravity, planar_axis)

(***************************************************************************)
(* Collocation.  An expression is a tree over Double_ leaves; a value is   *)
(* a double, modelled exactly as an integer number of units, and           *)
(* ExprValue2 is twice the value of an expression (the schemes scale by    *)
(* 0.5), so that the arithmetic stays in the integers.                     *)
(***************************************************************************)
\* A gtsam::Values maps a key to a typed value; v is the number of a double,
\* 0 for a zero vector, the link id for a link's rest pose.
Value(type, v) == [type |-> type, v |-> v]

Double_(key) == [op |-> "leaf", key |-> key]
Plus(l, r) == [op |-> "+", l |-> l, r |-> r]
Minus(l, r) == [op |-> "-", l |-> l, r |-> r]
\* double * expression; c2 is twice the double
Scaled(c2, e) == [op |-> "scale", c2 |-> c2, e |-> e]
\* Double_(multDouble, e1, e2)
multDouble(l, r) == [op |-> "multDouble", l |-> l, r |-> r]

RECURSIVE ExprValue2(_, _)
ExprValue2(e, vals) ==
    CASE e.op = "leaf" -> 2 * vals[e.key].v
      [] e.op = "+" -> ExprValue2(e.l, vals) + ExprValue2(e.r, vals)
      [] e.op = "-" -> ExprValue2(e.l, vals) - ExprValue2(e.r, vals)
      [] e.op = "scale" -> (e.c2 * ExprValue2(e.e, vals)) \div 2
      [] e.op = "multDouble" ->
            (ExprValue2(e.l, vals) * ExprValue2(e.r, vals)) \div 2

RECURSIVE ExprKeys(_)
ExprKeys(e) ==
    CASE e.op = "leaf" -> {e.key}
      [] e.op \in {"+", "-", "multDouble"} -> ExprKeys(e.l) \cup ExprKeys(e.r)
      [] e.op = "scale" -> ExprKeys(e.e)

\* graph.addExpressionFactor(expr, 0.0, Constrained::All(1))
ExpressionFactor(expr) ==
    [type |-> "ExpressionFactor", expr |-> expr, measured |-> 0,
     model |-> "Constrained1"]

CollocationSchemes == {"Euler", "RungeKutta", "Trapezoidal", "HermiteSimpson"}

Implemented(collocation) == collocation \in {"Euler", "Trapezoidal"}

\* backward Euler: the angle advanced by the velocity at t+1
EulerFactors_NextVel(j, t, dt) ==
    <<ExpressionFactor(
        Minus(Plus(Double_(JointAngleKey(j, t)),
                   Scaled(2 * dt, Double_(JointVelKey(j, t + 1)))),
              Double_(JointAngleKey(j, t + 1)))),
      ExpressionFactor(
        Minus(Plus(Double_(JointVelKey(j, t)),
                   Scaled(2 * dt, Double_(JointAccelKey(j, t)))),
              Double_(JointVelKey(j, t + 1))))>>

\* case CollocationScheme::Euler: q0 + dt * v0 - q1, v0 + dt * a0 - v1
EulerFactors(j, t, dt) ==
    LET q0_expr == Double_(JointAngleKey(j, t))
        q1_expr == Double_(JointAngleKey(j, t + 1))
        v0_expr == Double_(JointVelKey(j, t))
        v1_expr == Double_(JointVelKey(j, t + 1))
        a0_expr == Double_(JointAccelKey(j, t))
    IN  <<ExpressionFactor(
            Minus(Plus(q0_expr, Scaled(2 * dt, v0_expr)), q1_expr)),
          ExpressionFactor(
            Minus(Plus(v0_expr, Scaled(2 * dt, a0_expr)), v1_expr))>>

\* the factor 0.5 forgotten on the terms at t+1
TrapezoidalFactors_NoHalf(j, t, dt) ==
    <<ExpressionFactor(
        Minus(Plus(Plus(Double_(JointAngleKey(j, t)),
                        Scaled(dt, Double_(JointVelKey(j, t)))),
                   Scaled(2 * dt, Double_(JointVelKey(j, t + 1)))),
              Double_(JointAngleKey(j, t + 1)))),
      ExpressionFactor(
        Minus(Plus(Plus(Double_(JointVelKey(j, t)),
                        Scaled(dt, Double_(JointAccelKey(j, t)))),
                   Scaled(2 * dt, Double_(JointAccelKey(j, t + 1)))),
              Double_(JointVelKey(j, t + 1))))>>

\* case CollocationScheme::Trapezoidal:
\* q0 + 0.5 * dt * v0 + 0.5 * dt * v1 - q1, v0 + 0.5 * dt * a0 + 0.5 * dt * a1 - v1
TrapezoidalFactors(j, t, dt) ==
    LET q0_expr == Double_(JointAngleKey(j, t))
        q1_expr == Double_(JointAngleKey(j, t + 1))
        v0_expr == Double_(JointVelKey(j, t))
        v1_expr == Double_(JointVelKey(j, t + 1))
        a0_expr == Double_(JointAccelKey(j, t))
        a1_expr == Double_(JointAccelKey(j, t + 1))
    IN  <<ExpressionFactor(
            Minus(Plus(Plus(q0_expr, Scaled(dt, v0_expr)),
                       Scaled(dt, v1_expr)), q1_expr)),
          ExpressionFactor(
            Minus(Plus(Plus(v0_expr, Scaled(dt, a0_expr)),
                       Scaled(dt, a1_expr)), v1_expr))>>

\* The two factors collocationFactors adds for one joint.
JointCollocation(j, t, dt, collocation) ==
    CASE collocation = "Euler" -> EulerFactors(j, t, dt)
      [] collocation = "Trapezoidal" -> TrapezoidalFactors(j, t, dt)

\* The switch is inside the joint loop: its default throws in the first
\* iteration, and a robot without joints never reaches it.
collocationFactors(r, t, dt, collocation) ==
    IF Len(r.joints) > 0 /\ ~Implemented(collocation)
    THEN Thrown(NotImplemented)
    ELSE Returned(Flatten([k \in 1..Len(r.joints) |->
                    JointCollocation(r.joints[k].id, t, dt, collocation)]))

\* if (collocation == CollocationScheme::Euler): q0 + v0dt - q1, v0 + a0dt - v1
PhaseEulerFactors(j, t, phase) ==
    LET phase_expr == Double_(PhaseKey(phase))
        q0_expr == Double_(JointAngleKey(j, t))
        q1_expr == Double_(JointAngleKey(j, t + 1))
        v0_expr == Double_(JointVelKey(j, t))
        v1_expr == Double_(JointVelKey(j, t + 1))
        a0_expr == Double_(JointAccelKey(j, t))
        v0dt == multDouble(phase_expr, v0_expr)
        a0dt == multDouble(phase_expr, a0_expr)
    IN  <<ExpressionFactor(Minus(Plus(q0_expr, v0dt), q1_expr)),
          ExpressionFactor(Minus(Plus(v0_expr, a0dt), v1_expr))>>

\* the velocity at t+1 not multiplied by the phase duration
PhaseTrapezoidalFactors_NoDuration(j, t, phase) ==
    LET phase_expr == Double_(PhaseKey(phase))
    IN  <<ExpressionFactor(
            Minus(Plus(Plus(Double_(JointAngleKey(j, t)),
                            Scaled(1, multDouble(phase_expr,
                                                 Double_(JointVelKey(j, t))))),
                       Scaled(1, Double_(JointVelKey(j, t + 1)))),
                  Double_(JointAngleKey(j, t + 1)))),
          ExpressionFactor(
            Minus(Plus(Plus(Double_(JointVelKey(j, t)),
                            Scaled(1, multDouble(phase_expr,
                                                 Double_(JointAccelKey(j, t))))),
                       Scaled(1, multDouble(phase_expr,
                                            Double_(JointAccelKey(j, t + 1))))),
                  Double_(JointVelKey(j, t + 1))))>>

\* else if (collocation == CollocationScheme::Trapezoidal):
\* q0 + 0.5 * v0dt + 0.5 * v1dt - q1, v0 + 0.5 * a0dt + 0.5 * a1dt - v1
PhaseTrapezoidalFactors(j, t, phase) ==
    LET phase_expr == Double_(PhaseKey(phase))
        q0_expr == Double_(JointAngleKey(j, t))
        q1_expr == Double_(JointAngleKey(j, t + 1))
        v0_expr == Double_(JointVelKey(j, t))
        v1_expr == Double_(JointVelKey(j, t + 1))
        a0_expr == Double_(JointAccelKey(j, t))
        a1_expr == Double_(JointAccelKey(j, t + 1))
        v0dt == multDouble(phase_expr, v0_expr)
        a0dt == multDouble(phase_expr, a0_expr)
        v1dt == multDouble(phase_expr, v1_expr)
        a1dt == multDouble(phase_expr, a1_expr)
    IN  <<ExpressionFactor(
            Minus(Plus(Plus(q0_expr, Scaled(1, v0dt)), Scaled(1, v1dt)),
                  q1_expr)),
          ExpressionFactor(
            Minus(Plus(Plus(v0_expr, Scaled(1, a0dt)), Scaled(1, a1dt)),
                  v1_expr))>>

\* The two factors multiPhaseCollocationFactors adds for one joint.
JointPhaseCollocation(j, t, phase, collocation) ==
    CASE collocation = "Euler" -> PhaseEulerFactors(j, t, phase)
      [] collocation = "Trapezoidal" -> PhaseTrapezoidalFactors(j, t, phase)

multiPhaseCollocationFactors(r, t, phase, collocation) ==
    IF Len(r.joints) > 0 /\ ~Implemented(collocation)
    THEN Thrown(NotImplemented)
    ELSE Returned(Flatten([k \in 1..Len(r.joints) |->
                    JointPhaseCollocation(r.joints[k].id, t, phase, collocation)]))

(***************************************************************************)
(* trajectoryFG: for t = 0..num_steps the per-instant graph and, while     *)
(* t < num_steps, the collocation factors of the step (t, t+1).  A throw   *)
(* of either call leaves the loop and the function.                        *)
(***************************************************************************)
RECURSIVE trajectoryLoop(_, _, _, _, _, _, _, _)
trajectoryLoop(graph, r, t, num_steps, dt, collocation, gravity, planar_axis) ==
    IF ~(t < num_steps + 1)
    THEN Returned(graph)
    ELSE LET instant == dynamicsFactorGraph(r, t, gravity, planar_axis)
             step == IF t < num_steps
                     THEN collocationFactors(r, t, dt, collocation)
                     ELSE Returned(<<>>)
         IN  IF ~instant.ok THEN instant
             ELSE IF ~step.ok THEN step
             ELSE trajectoryLoop(graph \o instant.graph \o step.graph, r, t + 1,
                                 num_steps, dt, collocation, gravity, planar_axis)

\* num_steps taken as the number of instants: the instant num_steps is missing.
trajectoryFG_NoFinalInstant(r, num_steps, dt, collocation, gravity, planar_axis) ==
    trajectoryLoop(<<>>, r, 0, num_steps - 1, dt, collocation, gravity,
                   planar_axis)

trajectoryFG(r, num_steps, dt, collocation, gravity, planar_axis) ==
    trajectoryLoop(<<>>, r, 0, num_steps, dt, collocation, gravity, planar_axis)

(***************************************************************************)
(* multiPhaseTrajectoryFG.  st is the loop state: the graph built so far   *)
(* and the time counter t (or the exception that ended the call).          *)
(***************************************************************************)
\* t++ in place of ++t: the instant is built for the time index before the step.
AddNextInstant_PostIncrement(st, r, gravity, planar_axis) ==
    LET instant == dynamicsFactorGraph(r, st.t, gravity, planar_axis)
    IN  IF ~instant.ok
        THEN [ok |-> FALSE, what |-> instant.what, graph |-> <<>>, t |-> st.t + 1]
        ELSE [st EXCEPT !.graph = @ \o instant.graph, !.t = @ + 1]

\* graph.add(dynamicsFactorGraph(robots[phase], ++t, gravity, planar_axis))
AddNextInstant(st, r, gravity, planar_axis) ==
    LET instant == dynamicsFactorGraph(r, st.t + 1, gravity, planar_axis)
    IN  IF ~instant.ok
        THEN [ok |-> FALSE, what |-> instant.what, graph |-> <<>>, t |-> st.t + 1]
        ELSE [st EXCEPT !.graph = @ \o instant.graph, !.t = @ + 1]

RECURSIVE inPhaseLoop(_, _, _, _, _, _)
inPhaseLoop(st, r, phase_step, steps, gravity, planar_axis) ==
    IF ~st.ok \/ ~(phase_step < steps - 1)
    THEN st
    ELSE inPhaseLoop(AddNextInstant(st, r, gravity, planar_axis), r,
                     phase_step + 1, steps, gravity, planar_axis)

RECURSIVE phaseLoop(_, _, _, _, _, _, _)
phaseLoop(st, rs, steps, transitions, phase, gravity, planar_axis) ==
    IF ~st.ok \/ ~(phase < Len(rs))
    THEN st
    ELSE LET inner == inPhaseLoop(st, rs[phase + 1], 0, steps[phase + 1],
                                  gravity, planar_axis)
             after == IF ~inner.ok THEN inner
                      ELSE IF phase = Len(rs) - 1
                      THEN AddNextInstant(inner, rs[phase + 1], gravity, planar_axis)
                      ELSE [inner EXCEPT !.t = @ + 1,
                                         !.graph = @ \o transitions[phase + 1]]
         IN  phaseLoop(after, rs, steps, transitions, phase + 1,
                       gravity, planar_axis)

\* graph.add(multiPhaseCollocationFactors(robots[phase], t++, phase, collocation))
AddPhaseCollocation(st, r, phase, collocation) ==
    LET step == multiPhaseCollocationFactors(r, st.t, phase, collocation)
    IN  IF ~step.ok
        THEN [ok |-> FALSE, what |-> step.what, graph |-> <<>>, t |-> st.t + 1]
        ELSE [st EXCEPT !.graph = @ \o step.graph, !.t = @ + 1]

RECURSIVE inPhaseCollocation(_, _, _, _, _, _)
inPhaseCollocation(st, r, phase, phase_step, steps, collocation) ==
    IF ~st.ok \/ ~(phase_step < steps)
    THEN st
    ELSE inPhaseCollocation(AddPhaseCollocation(st, r, phase, collocation), r,
                            phase, phase_step + 1, steps, collocation)

RECURSIVE collocationLoop(_, _, _, _, _)
collocationLoop(st, rs, steps, phase, collocation) ==
    IF ~st.ok \/ ~(phase < Len(rs))
    THEN st
    ELSE collocationLoop(
             inPhaseCollocation(st, rs[phase + 1], phase, 0, steps[phase + 1],
                                collocation),
             rs, steps, phase + 1, collocation)

multiPhaseTrajectoryFG(rs, steps, transitions, collocation, gravity, planar_axis) ==
    LET first == dynamicsFactorGraph(rs[1], 0, gravity, planar_axis)
        start == [ok |-> first.ok, what |-> first.what, graph |-> first.graph,
                  t |-> 0]
        instants == phaseLoop(start, rs, steps, transitions, 0,
                              gravity, planar_axis)
        all == collocationLoop([instants EXCEPT !.t = 0], rs, steps, 0,
                               collocation)
    IN  IF all.ok THEN Returned(all.graph) ELSE Thrown(all.what)

(***************************************************************************)
(* JointTyped (src/gtdynamics/universal_robot/JointTyped.cpp): the         *)
(* constraints one joint emits for itself.  joint.parent and joint.child   *)
(* are parent_link_->getID() and child_link_->getID(), joint.id is getID().*)
(***************************************************************************)
JointTyped_qFactors(joint, t) ==
    <<Factor("PoseFactor",
             <<PoseKey(joint.parent, t), PoseKey(joint.child, t),
               JointAngleKey(joint.id, t)>>,
             "p_cost_model", "getConstSharedPtr")>>

JointTyped_vFactors(joint, t) ==
    <<Factor("TwistFactor",
             <<TwistKey(joint.parent, t), TwistKey(joint.child, t),
               JointAngleKey(joint.id, t), JointVelKey(joint.id, t)>>,
             "v_cost_model", "getConstSharedPtr")>>

\* the parent's twist passed first
JointTyped_aFactors_ParentTwist(joint, t) ==
    <<Factor("TwistAccelFactor",
             <<TwistKey(joint.parent, t), TwistAccelKey(joint.parent, t),
               TwistAccelKey(joint.child, t), JointAngleKey(joint.id, t),
               JointVelKey(joint.id, t), JointAccelKey(joint.id, t)>>,
             "a_cost_model", "getConstSharedPtr")>>

JointTyped_aFactors(joint, t) ==
    <<Factor("TwistAccelFactor",
             <<TwistKey(joint.child, t), TwistAccelKey(joint.parent, t),
               TwistAccelKey(joint.child, t), JointAngleKey(joint.id, t),
               JointVelKey(joint.id, t), JointAccelKey(joint.id, t)>>,
             "a_cost_model", "getConstSharedPtr")>>

JointTyped_dynamicsFactors(joint, t, planar_axis) ==
    <<Factor("WrenchEquivalenceFactor",
             <<WrenchKey(joint.parent, joint.id, t),
               WrenchKey(joint.child, joint.id, t), JointAngleKey(joint.id, t)>>,
             "f_cost_model", "getConstSharedPtr"),
      Factor("TorqueFactor",
             <<WrenchKey(joint.child, joint.id, t), TorqueKey(joint.id, t)>>,
             "t_cost_model", "getConstSharedPtr")>>
    \o (IF planar_axis
        THEN <<Factor("WrenchPlanarFactor", <<WrenchKey(joint.child, joint.id, t)>>,
                      "planar_cost_model", "planar_axis")>>
        ELSE <<>>)

(***************************************************************************)
(* The robots handed to the builder.  A robot is what the constructor     *)
(* keeps: links() and joints(), every link with its id, its fixed flag and *)
(* getJoints() (the ids of the joints attached to it), every joint with    *)
(* its id and the ids of parentLink() and childLink().                     *)
(***************************************************************************)
LinkPairs(nl) == {p \in (1..nl) \X (1..nl) : p[1] < p[2]}

PairRank(p) == p[1] * (MaxLinks + 2) + p[2]

\* The joint lists over nl links: nj joints, each between two distinct links.
JointEnds(nl, nj) ==
    {e \in [1..nj -> LinkPairs(nl)] :
        \A k \in 1..(nj - 1) : PairRank(e[k]) <= PairRank(e[k + 1])}

\* Positions, in joints() order, of the joints attached to the link at position a.
RECURSIVE AttachedTo(_, _, _)
AttachedTo(ends, a, k) ==
    IF k > Len(ends) THEN <<>>
    ELSE (IF a \in {ends[k][1], ends[k][2]} THEN <<k>> ELSE <<>>)
         \o AttachedTo(ends, a, k + 1)

MakeRobot(nl, fixed, ends, linkId, jointId) ==
    [links |-> [a \in 1..nl |->
                  [id |-> linkId[a], fixed |-> a \in fixed,
                   joints |-> LET at == AttachedTo(ends, a, 1)
                              IN  [k \in 1..Len(at) |-> jointId[at[k]]]]],
     joints |-> [k \in 1..Len(ends) |->
                   [id |-> jointId[k], parent |-> linkId[ends[k][1]],
                    child |-> linkId[ends[k][2]]]]]

SeqIds(n) == [k \in 1..n |-> k - 1]

Robots ==
    {MakeRobot(nl, fixed, ends, SeqIds(nl), SeqIds(Len(ends))) :
        <<nl, fixed, ends>> \in
            UNION {{<<nl, fixed, ends>> :
                        fixed \in SUBSET (1..nl),
                        ends \in UNION {JointEnds(nl, nj) : nj \in 0..MaxJoints}} :
                    nl \in 1..MaxLinks}}

NoRobot == [links |-> <<>>, joints |-> <<>>]
NoValues == <<>>

numJoints(r) == Len(r.joints)

Times == 0..MaxTime

Call(op, t) ==
    [op |-> op, t |-> t, gravity |-> FALSE, planar_axis |-> FALSE,
     num_steps |-> 0, dt |-> 0, collocation |-> "", phase |-> 0]

NoCall == Call("", 0)

(***************************************************************************)
(* Spec: the per-instant constraint families over the robots.              *)
(***************************************************************************)
Init ==
    /\ robot \in Robots
    /\ robots = <<>>
    /\ phase_steps = <<>>
    /\ transition_graphs = <<>>
    /\ values = NoValues
    /\ call = NoCall
    /\ ret = Returned(<<>>)

Inputs == <<robot, robots, phase_steps, transition_graphs, values>>

\* One builder call is applied to the inputs drawn.
Idle == call = NoCall

CallqFactors ==
    /\ Idle
    /\ \E t \in Times :
        /\ call' = Call("qFactors", t)
        /\ ret' = Returned(qFactors(robot, t))
        /\ UNCHANGED Inputs

CallvFactors ==
    /\ Idle
    /\ \E t \in Times :
        /\ call' = Call("vFactors", t)
        /\ ret' = Returned(vFactors(robot, t))
        /\ UNCHANGED Inputs

CallaFactors ==
    /\ Idle
    /\ \E t \in Times :
        /\ call' = Call("aFactors", t)
        /\ ret' = Returned(aFactors(robot, t))
        /\ UNCHANGED Inputs

CalldynamicsFactors ==
    /\ Idle
    /\ \E t \in Times, gravity \in BOOLEAN, planar_axis \in BOOLEAN :
        /\ call' = [Call("dynamicsFactors", t) EXCEPT
                        !.gravity = gravity, !.planar_axis = planar_axis]
        /\ ret' = dynamicsFactors(robot, t, gravity, planar_axis)
        /\ UNCHANGED Inputs

CalldynamicsFactorGraph ==
    /\ Idle
    /\ \E t \in Times, gravity \in BOOLEAN, planar_axis \in BOOLEAN :
        /\ call' = [Call("dynamicsFactorGraph", t) EXCEPT
                        !.gravity = gravity, !.planar_axis = planar_axis]
        /\ ret' = dynamicsFactorGraph(robot, t, gravity, planar_axis)
        /\ UNCHANGED Inputs

Next ==
    \/ CallqFactors
    \/ CallvFactors
    \/ CallaFactors
    \/ CalldynamicsFactors
    \/ CalldynamicsFactorGraph

Spec == Init /\ [][Next]_vars

(***************************************************************************)
(* zeroValues and the read-back helpers.  gtsam::Values::insert throws     *)
(* ValuesKeyAlreadyExists for a key that is present, and atDouble throws   *)
(* ValuesKeyDoesNotExist for a key that is absent.                         *)
(***************************************************************************)
KeyAlreadyExists == "ValuesKeyAlreadyExists"
KeyDoesNotExist == "ValuesKeyDoesNotExist"
IncorrectType == "ValuesIncorrectType"

\* zero_values.insert over the entries in order: the first key that is
\* already present throws, otherwise every entry is stored.
InsertAll(entries) ==
    IF \E a, b \in 1..Len(entries) : a < b /\ entries[a][1] = entries[b][1]
    THEN [ok |-> FALSE, what |-> KeyAlreadyExists, map |-> <<>>]
    ELSE [ok |-> TRUE, what |-> "",
          map |-> [key \in {entries[a][1] : a \in 1..Len(entries)} |->
                     LET a == CHOOSE a \in 1..Len(entries) : entries[a][1] = key
                     IN  entries[a][2]]]

\* the three inserts of the link loop
LinkZeroValues(link, t) ==
    <<<<PoseKey(link.id, t), Value("Pose3", link.id)>>,
      <<TwistKey(link.id, t), Value("Vector", 0)>>,
      <<TwistAccelKey(link.id, t), Value("Vector", 0)>>>>

\* the six inserts of the joint loop
JointZeroValues(joint, t) ==
    <<<<WrenchKey(joint.parent, joint.id, t), Value("Vector", 0)>>,
      <<WrenchKey(joint.child, joint.id, t), Value("Vector", 0)>>,
      <<TorqueKey(joint.id, t), Value("double", 0)>>,
      <<JointAngleKey(joint.id, t), Value("double", 0)>>,
      <<JointVelKey(joint.id, t), Value("double", 0)>>,
      <<JointAccelKey(joint.id, t), Value("double", 0)>>>>

zeroValues(r, t) ==
    InsertAll(Flatten([a \in 1..Len(r.links) |-> LinkZeroValues(r.links[a], t)])
              \o Flatten([k \in 1..Len(r.joints) |->
                            JointZeroValues(r.joints[k], t)]))

\* The vector of result.atDouble(key) over the joints, in joints() order.
ReadDoubles(r, result, keys) ==
    IF \E idx \in 1..numJoints(r) : keys[idx] \notin DOMAIN result
    THEN Thrown(KeyDoesNotExist)
    ELSE IF \E idx \in 1..numJoints(r) : result[keys[idx]].type # "double"
    THEN Thrown(IncorrectType)
    ELSE ReturnedVector([idx \in 1..numJoints(r) |-> result[keys[idx]].v])

jointAccels(r, result, t) ==
    ReadDoubles(r, result,
                [idx \in 1..numJoints(r) |-> JointAccelKey(r.joints[idx].id, t)])

jointVels(r, result, t) ==
    ReadDoubles(r, result,
                [idx \in 1..numJoints(r) |-> JointVelKey(r.joints[idx].id, t)])

\* the angles read under the position idx in place of the joint's id
jointAngles_ByPosition(r, result, t) ==
    ReadDoubles(r, result,
                [idx \in 1..numJoints(r) |-> JointAngleKey(idx - 1, t)])

jointAngles(r, result, t) ==
    ReadDoubles(r, result,
                [idx \in 1..numJoints(r) |-> JointAngleKey(r.joints[idx].id, t)])

\* the inserts of the phase loop: phase runs over 0..num_phases (phase <=
\* num_phases), and only when num_phases > 0
PhaseZeroValues(num_phases) ==
    IF num_phases > 0
    THEN [k \in 1..(num_phases + 1) |-> <<PhaseKey(k - 1), Value("double", 0)>>]
    ELSE <<>>

\* zero_values.insert(zeroValues(robot, t)) for t = 0..num_steps, then the
\* phase loop; an insert of a key already present throws.
zeroValuesTrajectory(r, num_steps, num_phases) ==
    IF \E t \in 0..num_steps : ~zeroValues(r, t).ok
    THEN [ok |-> FALSE, what |-> KeyAlreadyExists, map |-> <<>>]
    ELSE InsertAll(Flatten([k \in 1..(num_steps + 1) |->
                     Flatten([a \in 1..Len(r.links) |->
                                LinkZeroValues(r.links[a], k - 1)])
                     \o Flatten([j \in 1..Len(r.joints) |->
                                   JointZeroValues(r.joints[j], k - 1)])])
                   \o PhaseZeroValues(num_phases))

(***************************************************************************)
(* The prior builders.  A gtsam::Vector or std::vector argument is a       *)
(* sequence; position idx of the code is position idx + 1 here.  The code  *)
(* reads joint_angles[idx], joint_vels[idx], torques[idx] and              *)
(* torques_seq[t][idx] with operator[], which checks nothing: a read past  *)
(* the end is undefined behaviour, and junk is the value such a read       *)
(* yields when the call goes on.                                           *)
(***************************************************************************)
At(vec, idx, junk) == IF idx \in 1..Len(vec) THEN vec[idx] ELSE junk

\* gtsam::PriorFactor<double>(key, value, Constrained::All(1))
DoublePrior(key, value) == Factor("PriorFactor", <<key>>, "Constrained1", value)

\* the call did not return: the process was stopped at the bad read
Aborted == [ok |-> FALSE, what |-> "abort", graph |-> <<>>, vec |-> <<>>]

forwardDynamicsPriors(r, t, joint_angles, joint_vels, torques, junk) ==
    Returned(Flatten(
        [idx \in 1..numJoints(r) |->
            LET joint == r.joints[idx]
                j == joint.id
            IN  <<DoublePrior(JointAngleKey(j, t), At(joint_angles, idx, junk)),
                  DoublePrior(JointVelKey(j, t), At(joint_vels, idx, junk)),
                  DoublePrior(TorqueKey(j, t), At(torques, idx, junk))>>]))

\* the torque priors of one time index, the inner loop of the second loop
TrajectoryTorquePriors_FirstOnly(r, t, torques_seq, junk) ==
    [idx \in 1..numJoints(r) |->
        DoublePrior(TorqueKey(r.joints[idx].id, t),
                    At(At(torques_seq, 1, <<>>), idx, junk))]

TrajectoryTorquePriors(r, t, torques_seq, junk) ==
    [idx \in 1..numJoints(r) |->
        DoublePrior(TorqueKey(r.joints[idx].id, t),
                    At(At(torques_seq, t + 1, <<>>), idx, junk))]

trajectoryFDPriors(r, num_steps, joint_angles, joint_vels, torques_seq, junk) ==
    Returned(
        Flatten([idx \in 1..numJoints(r) |->
            LET j == r.joints[idx].id
            IN  <<DoublePrior(JointAngleKey(j, 0), At(joint_angles, idx, junk)),
                  DoublePrior(JointVelKey(j, 0), At(joint_vels, idx, junk))>>])
        \o Flatten([s \in 1..(num_steps + 1) |->
                      TrajectoryTorquePriors(r, s - 1, torques_seq, junk)]))

\* every read of the call is inside its vector
ForwardReadsInRange(r, joint_angles, joint_vels, torques) ==
    /\ Len(joint_angles) >= numJoints(r)
    /\ Len(joint_vels) >= numJoints(r)
    /\ Len(torques) >= numJoints(r)

TrajectoryReadsInRange(r, num_steps, joint_angles, joint_vels, torques_seq) ==
    /\ Len(joint_angles) >= numJoints(r)
    /\ Len(joint_vels) >= numJoints(r)
    /\ \/ numJoints(r) = 0
       \/ /\ Len(torques_seq) >= num_steps + 1
          /\ \A s \in 1..(num_steps + 1) : Len(torques_seq[s]) >= numJoints(r)

(***************************************************************************)
(* optimize.  The three optimizers are gtsam's; each returns an assignment *)
(* over the keys of init_values in which every variable pinned by a        *)
(* constrained prior holds the prior's value, and throws                   *)
(* ValuesKeyDoesNotExist when the graph refers to a key init_values lacks. *)
(***************************************************************************)
OptimizerTypes == {"GaussNewton", "LM", "PDL"}
OptimizerNotImplemented == "optimizer not implemented yet"

PriorsIn(graph) == SelectSeq(graph, LAMBDA f : f.type = "PriorFactor")

\* optimizer.values() after optimizer.optimize()
OptimizerValues(graph, init_values) ==
    LET priors == PriorsIn(graph)
        pinned == {priors[k].keys[1] : k \in 1..Len(priors)}
    IN  [key \in DOMAIN init_values |->
            IF key \in pinned
            THEN LET k == CHOOSE k \in 1..Len(priors) : priors[k].keys[1] = key
                 IN  Value("double", priors[k].data)
            ELSE init_values[key]]

optimize(graph, init_values, optim_type) ==
    IF optim_type \notin OptimizerTypes
    THEN [ok |-> FALSE, what |-> OptimizerNotImplemented, map |-> <<>>]
    ELSE IF \E k \in 1..Len(graph) : ~(Range(graph[k].keys) \subseteq DOMAIN init_values)
    THEN [ok |-> FALSE, what |-> KeyDoesNotExist, map |-> <<>>]
    ELSE [ok |-> TRUE, what |-> "", map |-> OptimizerValues(graph, init_values)]

(***************************************************************************)
(* The robot structure (src/cpp/UniversalRobot.h).  A description names    *)
(* the links and, per joint, its parent and child link; its first link is  *)
(* the designated base.  The header declares extract_structure_from_urdf,  *)
(* the constructor, getJointBetweenLinks and linkTransforms; their bodies  *)
(* are in UniversalRobot.cpp and are modelled from the specification and   *)
(* from what src/cpp/tests/testUniversalRobot.cpp expects of them.         *)
(***************************************************************************)
MalformedStructure == "MalformedStructure"
NoSuchJoint == "NoSuchJoint"
AmbiguousJoint == "AmbiguousJoint"

DescribedJoint(name, parent, child) ==
    [name |-> name, parent |-> parent, child |-> child]

Description(links, joints) == [links |-> links, joints |-> joints]

Names(s) == [k \in 1..Len(s) |-> s[k].name]

\* a strict tree keeps one parent joint per link
ParentJointsOf_Tree(urdf, link) ==
    LET all == SelectSeq(urdf.joints, LAMBDA j : j.child = link)
    IN  IF all = <<>> THEN <<>> ELSE <<Head(all)>>

\* the joints having the link as child, and those having it as parent
ParentJointsOf(urdf, link) == SelectSeq(urdf.joints, LAMBDA j : j.child = link)
ChildJointsOf(urdf, link) == SelectSeq(urdf.joints, LAMBDA j : j.parent = link)

\* the RobotLink built for a described link
ExtractLink(urdf, link) ==
    LET parents == ParentJointsOf(urdf, link)
        children == ChildJointsOf(urdf, link)
    IN  [name |-> link,
         parentJoints |-> Names(parents),
         parentLinks |-> [k \in 1..Len(parents) |-> parents[k].parent],
         childJoints |-> Names(children),
         childLinks |-> [k \in 1..Len(children) |-> children[k].child],
         joints |-> Names(parents) \o Names(children)]

Structure(links, joints) ==
    [ok |-> TRUE, what |-> "", links |-> links, joints |-> joints]

NoStructure(msg) == [ok |-> FALSE, what |-> msg, links |-> <<>>, joints |-> <<>>]

\* every joint's parent and child are links of the description
LinksKnown(urdf) ==
    \A k \in 1..Len(urdf.joints) :
        {urdf.joints[k].parent, urdf.joints[k].child} \subseteq Range(urdf.links)

extract_structure_from_urdf(urdf) ==
    IF ~LinksKnown(urdf) THEN NoStructure(MalformedStructure)
    ELSE Structure([k \in 1..Len(urdf.links) |-> ExtractLink(urdf, urdf.links[k])],
                   urdf.joints)

\* the links joined to some link of the set by a path of joints
RECURSIVE ConnectedTo(_, _)
ConnectedTo(set, joints) ==
    LET more == set \cup {joints[k].child : k \in {k \in 1..Len(joints) :
                                                    joints[k].parent \in set}}
                    \cup {joints[k].parent : k \in {k \in 1..Len(joints) :
                                                     joints[k].child \in set}}
    IN  IF more = set THEN set ELSE ConnectedTo(more, joints)

\* a robot is built from any extracted structure, connected or not
UniversalRobot_Unchecked(structure) == structure

\* UniversalRobot::UniversalRobot(urdf_links_and_joints)
UniversalRobot(structure) ==
    IF ~structure.ok THEN structure
    ELSE IF structure.links # <<>>
            /\ ConnectedTo({structure.links[1].name}, structure.joints)
               # {structure.links[k].name : k \in 1..Len(structure.links)}
    THEN NoStructure(MalformedStructure)
    ELSE structure

\* the joints whose parent is l1 and whose child is l2
JointsBetween_Directed(r, l1, l2) ==
    SelectSeq(r.joints, LAMBDA j : j.parent = l1 /\ j.child = l2)

\* the joints whose endpoints are l1 and l2
JointsBetween(r, l1, l2) ==
    SelectSeq(r.joints, LAMBDA j : {j.parent, j.child} = {l1, l2})

ReturnedJoint(joint) == [ok |-> TRUE, what |-> "", joint |-> joint]
NoJoint(msg) == [ok |-> FALSE, what |-> msg, joint |-> ""]

\* the first joint found is returned
getJointBetweenLinks_First(r, l1, l2) ==
    LET found == JointsBetween(r, l1, l2)
    IN  IF found = <<>> THEN NoJoint(NoSuchJoint)
        ELSE ReturnedJoint(found[1].name)

getJointBetweenLinks(r, l1, l2) ==
    LET found == JointsBetween(r, l1, l2)
    IN  IF found = <<>> THEN NoJoint(NoSuchJoint)
        ELSE IF Len(found) > 1 THEN NoJoint(AmbiguousJoint)
        ELSE ReturnedJoint(found[1].name)

\* A transform is the joint's stored rest transform turned by the joint's
\* coordinate measured from its rest coordinate.
RestAngle == 0
RestTransform(joint) == [rest |-> joint.name, turned |-> 0]
TransformAt(joint, q) == [rest |-> joint.name, turned |-> q - RestAngle]

\* the coordinate of a joint: the map's entry, or the rest coordinate
AngleOf(joint, joint_name_to_angle) ==
    IF joint.name \in DOMAIN joint_name_to_angle
    THEN joint_name_to_angle[joint.name]
    ELSE RestAngle

\* every joint is taken at its rest coordinate, whatever the map holds
InnerTransforms_AtRest(r, link, joint_name_to_angle) ==
    [parent \in {link.parentLinks[k] : k \in 1..Len(link.parentLinks)} |->
        LET via == SelectSeq(r.joints, LAMBDA j : j.parent = parent
                                                  /\ j.child = link.name)
        IN  TransformAt(via[Len(via)], RestAngle)]

\* the inner map of a link: parent link name -> transform
InnerTransforms(r, link, joint_name_to_angle) ==
    [parent \in {link.parentLinks[k] : k \in 1..Len(link.parentLinks)} |->
        LET via == SelectSeq(r.joints, LAMBDA j : j.parent = parent
                                                  /\ j.child = link.name)
            joint == via[Len(via)]
        IN  TransformAt(joint, AngleOf(joint, joint_name_to_angle))]

linkTransforms(r, joint_name_to_angle) ==
    [name \in {r.links[k].name : k \in 1..Len(r.links)} |->
        LET link == CHOOSE l \in Range(r.links) : l.name = name
        IN  InnerTransforms(r, link, joint_name_to_angle)]

\* The named attribute stored on a joint (its lower limit, upper limit,
\* limit threshold or screw axis): the value is identified by the joint that
\* owns it.
JointAttribute(joint, attribute) == [attribute |-> attribute, of |-> joint.name]

ReturnedMap(map) == [ok |-> TRUE, what |-> "", map |-> map]

\* every name is given the attribute of the joint visited last
AttributeMap_LastJoint(r, attribute) ==
    [name \in {r.joints[k].name : k \in 1..Len(r.joints)} |->
        JointAttribute(r.joints[Len(r.joints)], attribute)]

\* the std::map filled over the robot's joints: name -> the joint's attribute
AttributeMap(r, attribute) ==
    [name \in {r.joints[k].name : k \in 1..Len(r.joints)} |->
        LET joint == CHOOSE j \in Range(r.joints) : j.name = name
        IN  JointAttribute(joint, attribute)]

screwAxes(r) == ReturnedMap(AttributeMap(r, "screwAxis"))
jointLowerLimits(r) == ReturnedMap(AttributeMap(r, "jointLowerLimit"))
jointUpperLimits(r) == ReturnedMap(AttributeMap(r, "jointUpperLimit"))
jointLimitThresholds(r) == ReturnedMap(AttributeMap(r, "jointLimitThreshold"))

\* name_to_link_body_ and name_to_link_joint_ looked up by name
getLinkByName(r, name) ==
    [ok |-> TRUE, what |-> "",
     link |-> CHOOSE l \in Range(r.links) : l.name = name]

getJointByName(r, name) ==
    [ok |-> TRUE, what |-> "",
     joint |-> CHOOSE j \in Range(r.joints) : j.name = name]

(***************************************************************************)
(* SpecTraj: collocation and whole-trajectory assembly over fixture robots.*)
(***************************************************************************)
\* one free body, no joint
SingleBody == MakeRobot(1, {}, <<>>, SeqIds(1), SeqIds(0))
\* a fixed base and one moving link
SimpleArm == MakeRobot(2, {1}, <<<<1, 2>>>>, SeqIds(2), SeqIds(1))
\* two moving links
FreeArm == MakeRobot(2, {}, <<<<1, 2>>>>, SeqIds(2), SeqIds(1))
\* a fixed base and a serial chain
SerialArm == MakeRobot(3, {1}, <<<<1, 2>>, <<2, 3>>>>, SeqIds(3), SeqIds(2))
\* a closed loop
ClosedLoop ==
    MakeRobot(3, {1}, <<<<1, 2>>, <<1, 3>>, <<2, 3>>>>, SeqIds(3), SeqIds(3))
\* a moving link with more joints than a wrench factor takes
OverDegree ==
    MakeRobot(2, {1}, [k \in 1..(MaxWrenchDegree + 1) |-> <<1, 2>>],
              SeqIds(2), SeqIds(MaxWrenchDegree + 1))

Fixtures == {SingleBody, SimpleArm, FreeArm, SerialArm, ClosedLoop, OverDegree}

InitTraj ==
    /\ robot \in Fixtures
    /\ robots = <<>>
    /\ phase_steps = <<>>
    /\ transition_graphs = <<>>
    /\ values = NoValues
    /\ call = NoCall
    /\ ret = Returned(<<>>)

CallcollocationFactors ==
    /\ Idle
    /\ \E t \in Times, dt \in 1..MaxDt, collocation \in CollocationSchemes :
        /\ call' = [Call("collocationFactors", t) EXCEPT
                        !.dt = dt, !.collocation = collocation]
        /\ ret' = collocationFactors(robot, t, dt, collocation)
        /\ UNCHANGED Inputs

CallmultiPhaseCollocationFactors ==
    /\ Idle
    /\ \E t \in Times, phase \in 0..(MaxPhases - 1),
          collocation \in CollocationSchemes :
        /\ call' = [Call("multiPhaseCollocationFactors", t) EXCEPT
                        !.phase = phase, !.collocation = collocation]
        /\ ret' = multiPhaseCollocationFactors(robot, t, phase, collocation)
        /\ UNCHANGED Inputs

CalltrajectoryFG ==
    /\ Idle
    /\ \E num_steps \in 0..MaxSteps, dt \in 1..MaxDt,
          collocation \in CollocationSchemes, planar_axis \in BOOLEAN :
        /\ call' = [Call("trajectoryFG", 0) EXCEPT
                        !.num_steps = num_steps, !.dt = dt,
                        !.collocation = collocation,
                        !.planar_axis = planar_axis]
        /\ ret' = trajectoryFG(robot, num_steps, dt, collocation, FALSE,
                               planar_axis)
        /\ UNCHANGED Inputs

NextTraj ==
    \/ CallcollocationFactors
    \/ CallmultiPhaseCollocationFactors
    \/ CalltrajectoryFG

SpecTraj == InitTraj /\ [][NextTraj]_vars

(***************************************************************************)
(* SpecPhases: multi-phase assembly.  The caller supplies one robot and    *)
(* one step count per phase and a transition graph per phase boundary.     *)
(***************************************************************************)
PhaseRobots == {SingleBody, SimpleArm, FreeArm}

\* A supplied transition graph for the boundary after phase p: n factors.
TransitionGraph(p, n) ==
    [k \in 1..n |-> Factor("ContactFactor", <<PoseKey(k, p)>>, "supplied",
                           "transition")]

InitPhases ==
    /\ robot = NoRobot
    /\ \E P \in 1..MaxPhases :
        /\ robots \in [1..P -> PhaseRobots]
        /\ phase_steps \in [1..P -> 0..MaxSteps]
        /\ \E n \in [1..(P - 1) -> 0..1] :
              transition_graphs = [p \in 1..(P - 1) |-> TransitionGraph(p, n[p])]
    /\ values = NoValues
    /\ call = NoCall
    /\ ret = Returned(<<>>)

CallmultiPhaseTrajectoryFG ==
    /\ Idle
    /\ \E collocation \in CollocationSchemes :
        /\ call' = [Call("multiPhaseTrajectoryFG", 0) EXCEPT
                        !.collocation = collocation]
        /\ ret' = multiPhaseTrajectoryFG(robots, phase_steps, transition_graphs,
                                         collocation, FALSE, FALSE)
        /\ UNCHANGED Inputs

NextPhases == CallmultiPhaseTrajectoryFG

SpecPhases == InitPhases /\ [][NextPhases]_vars

(***************************************************************************)
(* SpecResidual: the collocation factors of a one-joint robot, evaluated   *)
(* on an assignment of the joint's angle, velocity and acceleration at two *)
(* consecutive time indices and of the duration of phase 0.                *)
(***************************************************************************)
\* the same arm with joint id 1
SimpleArmB == MakeRobot(2, {1}, <<<<1, 2>>>>, SeqIds(2), <<1>>)

SampleTime == MaxTime

SampleKeys(j) ==
    UNION {{JointAngleKey(j, t), JointVelKey(j, t), JointAccelKey(j, t)} :
             t \in {SampleTime, SampleTime + 1}}

InitResidual ==
    /\ robot \in {SimpleArm, SimpleArmB}
    /\ robots = <<>>
    /\ phase_steps = <<>>
    /\ transition_graphs = <<>>
    /\ \E f \in [SampleKeys(robot.joints[1].id) -> (-1)..MaxVal], d \in 0..MaxDt :
          values = [k \in DOMAIN f \cup {PhaseKey(0)} |->
                      IF k = PhaseKey(0) THEN Value("double", d)
                      ELSE Value("double", f[k])]
    /\ call = NoCall
    /\ ret = Returned(<<>>)

CallcollocationFactorsOnSample ==
    /\ Idle
    /\ \E dt \in 0..MaxDt, collocation \in {"Euler", "Trapezoidal"} :
        /\ call' = [Call("collocationFactors", SampleTime) EXCEPT
                        !.dt = dt, !.collocation = collocation]
        /\ ret' = collocationFactors(robot, SampleTime, dt, collocation)
        /\ UNCHANGED Inputs

CallmultiPhaseCollocationFactorsOnSample ==
    /\ Idle
    /\ \E collocation \in {"Euler", "Trapezoidal"} :
        /\ call' = [Call("multiPhaseCollocationFactors", SampleTime) EXCEPT
                        !.collocation = collocation]
        /\ ret' = multiPhaseCollocationFactors(robot, SampleTime, 0, collocation)
        /\ UNCHANGED Inputs

NextResidual ==
    \/ CallcollocationFactorsOnSample
    \/ CallmultiPhaseCollocationFactorsOnSample

SpecResidual == InitResidual /\ [][NextResidual]_vars

(***************************************************************************)
(* SpecValues: zeroValues for an instant, then the read-back helpers on    *)
(* the assignment it returned.                                             *)
(***************************************************************************)
\* a fixed base carrying LabelBase + 1 one-joint arms, ids in sequence
WideHub ==
    MakeRobot(LabelBase + 2, {1}, [k \in 1..(LabelBase + 1) |-> <<1, k + 1>>],
              SeqIds(LabelBase + 2), SeqIds(LabelBase + 1))

\* the serial arm with its joints numbered from the tip
SerialArmB == MakeRobot(3, {1}, <<<<1, 2>>, <<2, 3>>>>, SeqIds(3), <<1, 0>>)

ValueRobots == Fixtures \cup {SimpleArmB, SerialArmB, WideHub}

InitValues ==
    /\ robot \in ValueRobots
    /\ robots = <<>>
    /\ phase_steps = <<>>
    /\ transition_graphs = <<>>
    /\ values = NoValues
    /\ call = NoCall
    /\ ret = Returned(<<>>)

CallzeroValues ==
    /\ Idle
    /\ \E t \in Times :
        LET zero == zeroValues(robot, t)
        IN  /\ call' = Call("zeroValues", t)
            /\ ret' = IF zero.ok THEN Returned(<<>>) ELSE Thrown(zero.what)
            /\ values' = zero.map
            /\ UNCHANGED <<robot, robots, phase_steps, transition_graphs>>

CallzeroValuesTrajectory ==
    /\ Idle
    /\ \E num_steps \in 0..MaxSteps, num_phases \in 0..MaxPhases :
        LET zero == zeroValuesTrajectory(robot, num_steps, num_phases)
        IN  /\ call' = [Call("zeroValuesTrajectory", 0) EXCEPT
                          !.num_steps = num_steps, !.phase = num_phases]
            /\ ret' = IF zero.ok THEN Returned(<<>>) ELSE Thrown(zero.what)
            /\ values' = zero.map
            /\ UNCHANGED <<robot, robots, phase_steps, transition_graphs>>

\* The caller of zeroValues(robot, t) builds the constraint set of the same
\* robot and instant, keeping what zeroValues gave.
CalldynamicsFactorGraphForValues ==
    /\ call.op = "zeroValues"
    /\ \E gravity \in BOOLEAN, planar_axis \in BOOLEAN :
        /\ call' = [Call("dynamicsFactorGraph", call.t) EXCEPT
                        !.gravity = gravity, !.planar_axis = planar_axis]
        /\ ret' = dynamicsFactorGraph(robot, call.t, gravity, planar_axis)
        /\ UNCHANGED Inputs

\* The caller holds the assignment zeroValues returned.
HoldsValues == call.op = "zeroValues" /\ ret.ok

CalljointAngles ==
    /\ HoldsValues
    /\ \E t \in Times :
        /\ call' = Call("jointAngles", t)
        /\ ret' = jointAngles(robot, values, t)
        /\ UNCHANGED Inputs

CalljointVels ==
    /\ HoldsValues
    /\ \E t \in Times :
        /\ call' = Call("jointVels", t)
        /\ ret' = jointVels(robot, values, t)
        /\ UNCHANGED Inputs

CalljointAccels ==
    /\ HoldsValues
    /\ \E t \in Times :
        /\ call' = Call("jointAccels", t)
        /\ ret' = jointAccels(robot, values, t)
        /\ UNCHANGED Inputs

NextValues ==
    \/ CallzeroValues
    \/ CallzeroValuesTrajectory
    \/ CalldynamicsFactorGraphForValues
    \/ CalljointAngles
    \/ CalljointVels
    \/ CalljointAccels

SpecValues == InitValues /\ [][NextValues]_vars

(***************************************************************************)
(* SpecKeys: one key is built by one of the key functions and then printed *)
(* by print_key.                                                           *)
(***************************************************************************)
DigitChars == <<"0", "1", "2", "3", "4", "5", "6", "7", "8", "9">>

\* operator<< of a non-negative int: its decimal digits
RECURSIVE Decimal(_)
Decimal(n) ==
    IF n < Len(DigitChars) THEN <<DigitChars[n + 1]>>
    ELSE Decimal(n \div Len(DigitChars)) \o <<DigitChars[(n % Len(DigitChars)) + 1]>>

\* the characters print_key writes to std::cout
print_key(key) ==
    LET ch == key.chr
        index == key.label
        t == key.index
    IN  (IF ch = "F"
         THEN <<ch>> \o Decimal(index \div LabelBase) \o Decimal(index % LabelBase)
              \o <<"_">> \o Decimal(t)
         ELSE IF ch = "t"
         THEN IF index = 0 THEN <<"d", "t">> \o Decimal(t)
              ELSE IF index = 1 THEN <<"t">> \o Decimal(t)
              ELSE <<"t", "i">> \o Decimal(t)
         ELSE <<ch>> \o Decimal(index) \o <<"_">> \o Decimal(t))
        \o <<"\t">>

\* link and joint ids the keys are built for: the smallest ids, ids of one
\* and of two decimal digits, and the ids around the base of the wrench label
KeyIds == {0, 1, 2, LabelBase - 5, LabelBase - 4, LabelBase - 1, LabelBase,
           LabelBase + 1}
PhaseIds == 0..(MaxPhases - 1)

LinkKeyOps == {"PoseKey", "TwistKey", "TwistAccelKey"}
JointKeyOps == {"TorqueKey", "JointAngleKey", "JointVelKey", "JointAccelKey"}
KeyOps == LinkKeyOps \cup JointKeyOps \cup {"WrenchKey", "PhaseKey"}

LinkKeyCall(op, i, t) == [op |-> op, i |-> i, t |-> t]
JointKeyCall(op, j, t) == [op |-> op, j |-> j, t |-> t]
WrenchKeyCall(i, j, t) == [op |-> "WrenchKey", i |-> i, j |-> j, t |-> t]
PhaseKeyCall(k) == [op |-> "PhaseKey", k |-> k]

ReturnedKey(key) == [ok |-> TRUE, what |-> "", key |-> key, text |-> <<>>]

InitKeys ==
    /\ robot = NoRobot
    /\ robots = <<>>
    /\ phase_steps = <<>>
    /\ transition_graphs = <<>>
    /\ values = NoValues
    /\ call = NoCall
    /\ ret = Returned(<<>>)

CallPoseKey ==
    /\ Idle
    /\ \E i \in KeyIds, t \in Times :
        /\ call' = LinkKeyCall("PoseKey", i, t)
        /\ ret' = ReturnedKey(PoseKey(i, t))
    /\ UNCHANGED Inputs

CallTwistKey ==
    /\ Idle
    /\ \E i \in KeyIds, t \in Times :
        /\ call' = LinkKeyCall("TwistKey", i, t)
        /\ ret' = ReturnedKey(TwistKey(i, t))
    /\ UNCHANGED Inputs

CallTwistAccelKey ==
    /\ Idle
    /\ \E i \in KeyIds, t \in Times :
        /\ call' = LinkKeyCall("TwistAccelKey", i, t)
        /\ ret' = ReturnedKey(TwistAccelKey(i, t))
    /\ UNCHANGED Inputs

CallWrenchKey ==
    /\ Idle
    /\ \E i \in KeyIds, j \in KeyIds, t \in Times :
        /\ call' = WrenchKeyCall(i, j, t)
        /\ ret' = ReturnedKey(WrenchKey(i, j, t))
    /\ UNCHANGED Inputs

CallTorqueKey ==
    /\ Idle
    /\ \E j \in KeyIds, t \in Times :
        /\ call' = JointKeyCall("TorqueKey", j, t)
        /\ ret' = ReturnedKey(TorqueKey(j, t))
    /\ UNCHANGED Inputs

CallJointAngleKey ==
    /\ Idle
    /\ \E j \in KeyIds, t \in Times :
        /\ call' = JointKeyCall("JointAngleKey", j, t)
        /\ ret' = ReturnedKey(JointAngleKey(j, t))
    /\ UNCHANGED Inputs

CallJointVelKey ==
    /\ Idle
    /\ \E j \in KeyIds, t \in Times :
        /\ call' = JointKeyCall("JointVelKey", j, t)
        /\ ret' = ReturnedKey(JointVelKey(j, t))
    /\ UNCHANGED Inputs

CallJointAccelKey ==
    /\ Idle
    /\ \E j \in KeyIds, t \in Times :
        /\ call' = JointKeyCall("JointAccelKey", j, t)
        /\ ret' = ReturnedKey(JointAccelKey(j, t))
    /\ UNCHANGED Inputs

CallPhaseKey ==
    /\ Idle
    /\ \E k \in PhaseIds :
        /\ call' = PhaseKeyCall(k)
        /\ ret' = ReturnedKey(PhaseKey(k))
    /\ UNCHANGED Inputs

\* a key of character 't' made directly: label 0 is the phase key, 1 the
\* time key, any other label prints as "ti"
TimeLabels == {0, 1, 2, 3}

CallLabeledSymbol ==
    /\ Idle
    /\ \E label \in TimeLabels, t \in Times :
        /\ call' = [op |-> "LabeledSymbol", chr |-> "t", label |-> label, t |-> t]
        /\ ret' = ReturnedKey(LabeledSymbol("t", label, t))
    /\ UNCHANGED Inputs

\* the key just built is printed
Callprint_key ==
    /\ call # NoCall
    /\ ret.text = <<>>
    /\ ret' = [ret EXCEPT !.text = print_key(ret.key)]
    /\ UNCHANGED <<call, robot, robots, phase_steps, transition_graphs, values>>

NextKeys ==
    \/ CallPoseKey
    \/ CallTwistKey
    \/ CallTwistAccelKey
    \/ CallWrenchKey
    \/ CallTorqueKey
    \/ CallJointAngleKey
    \/ CallJointVelKey
    \/ CallJointAccelKey
    \/ CallPhaseKey
    \/ CallLabeledSymbol
    \/ Callprint_key

SpecKeys == InitKeys /\ [][NextKeys]_vars

(***************************************************************************)
(* SpecArguments: the prior builders and multiPhaseTrajectoryFG on         *)
(* arguments of any length, matching the joint and phase counts or not.    *)
(***************************************************************************)
PriorRobots == {SingleBody, SimpleArmB, SerialArmB}

\* the vector of the given length whose entries are base + 1, base + 2, ...
Vector(len, base) == [idx \in 1..len |-> base + idx]

VectorLengths == 0..2
VectorBases == 0..1
Vectors == {Vector(len, base) : len \in VectorLengths, base \in VectorBases}

\* torques_seq: count vectors, the one of time t with base + t
VectorSeq(count, len, base) == [s \in 1..count |-> Vector(len, base + s - 1)]

\* what a read past the end of a vector of doubles can yield
JunkDoubles == {0 - 1, 0}
\* what a read past the end of phase_steps, transition_graphs, robots can yield
JunkSteps == {0, 1}
JunkGraphs == {<<>>, TransitionGraph(0, 1)}
JunkRobots == {SingleBody, SimpleArm}

PriorCall(op, t, num_steps, joint_angles, joint_vels, torques, torques_seq) ==
    [op |-> op, t |-> t, num_steps |-> num_steps, joint_angles |-> joint_angles,
     joint_vels |-> joint_vels, torques |-> torques, torques_seq |-> torques_seq]

\* multiPhaseTrajectoryFG reads robots[0], phase_steps[phase] and
\* transition_graphs[phase] with operator[]: with an empty robots list
\* num_phases is 0 and the only graph added is that of robots[0]; a short
\* phase_steps or transition_graphs is read past its end.
multiPhaseTrajectoryFGOutcomes(rs, steps, transitions, collocation, jr, js, jg) ==
    IF rs = <<>>
    THEN {Aborted, dynamicsFactorGraph(jr, 0, FALSE, FALSE)}
    ELSE IF Len(steps) >= Len(rs) /\ Len(transitions) >= Len(rs) - 1
    THEN {multiPhaseTrajectoryFG(rs, steps, transitions, collocation,
                                 FALSE, FALSE)}
    ELSE {Aborted,
          multiPhaseTrajectoryFG(
              rs, [p \in 1..Len(rs) |-> At(steps, p, js)],
              [p \in 1..(Len(rs) - 1) |-> At(transitions, p, jg)],
              collocation, FALSE, FALSE)}

InitArguments ==
    /\ values = NoValues
    /\ call = NoCall
    /\ ret = Returned(<<>>)
    /\ \/ /\ robot \in PriorRobots
          /\ robots = <<>>
          /\ phase_steps = <<>>
          /\ transition_graphs = <<>>
       \/ /\ robot = NoRobot
          /\ \E P \in 0..MaxPhases :
              /\ robots \in [1..P -> {SingleBody, SimpleArm}]
              /\ \E S \in 0..P : phase_steps \in [1..S -> 1..MaxSteps]
              /\ \E T \in {0, P - 1} : \E n \in 0..1 :
                    /\ T >= 0
                    /\ transition_graphs = [p \in 1..T |-> TransitionGraph(p, n)]

CallforwardDynamicsPriors ==
    /\ Idle /\ robot # NoRobot
    /\ \E t \in Times, joint_angles \in Vectors, joint_vels \in Vectors,
          torques \in Vectors, junk \in JunkDoubles :
        /\ call' = PriorCall("forwardDynamicsPriors", t, 0, joint_angles,
                             joint_vels, torques, <<>>)
        /\ ret' \in
             IF ForwardReadsInRange(robot, joint_angles, joint_vels, torques)
             THEN {forwardDynamicsPriors(robot, t, joint_angles, joint_vels,
                                         torques, junk)}
             ELSE {Aborted,
                   forwardDynamicsPriors(robot, t, joint_angles, joint_vels,
                                         torques, junk)}
    /\ UNCHANGED Inputs

CalltrajectoryFDPriors ==
    /\ Idle /\ robot # NoRobot
    /\ \E num_steps \in 0..MaxSteps, joint_angles \in Vectors,
          joint_vels \in Vectors, count \in 0..(MaxSteps + 1),
          len \in VectorLengths, base \in VectorBases, junk \in JunkDoubles :
        LET torques_seq == VectorSeq(count, len, base)
        IN  /\ call' = PriorCall("trajectoryFDPriors", 0, num_steps,
                                 joint_angles, joint_vels, <<>>, torques_seq)
            /\ ret' \in
                 IF TrajectoryReadsInRange(robot, num_steps, joint_angles,
                                           joint_vels, torques_seq)
                 THEN {trajectoryFDPriors(robot, num_steps, joint_angles,
                                          joint_vels, torques_seq, junk)}
                 ELSE {Aborted,
                       trajectoryFDPriors(robot, num_steps, joint_angles,
                                          joint_vels, torques_seq, junk)}
    /\ UNCHANGED Inputs

CallmultiPhaseTrajectoryFGOnAnyLists ==
    /\ Idle /\ robot = NoRobot
    /\ \E collocation \in {"Euler", "Trapezoidal"}, junk_robot \in JunkRobots,
          junk_steps \in JunkSteps, junk_graph \in JunkGraphs :
        /\ call' = [Call("multiPhaseTrajectoryFG", 0) EXCEPT
                        !.collocation = collocation]
        /\ ret' \in multiPhaseTrajectoryFGOutcomes(
                        robots, phase_steps, transition_graphs, collocation,
                        junk_robot, junk_steps, junk_graph)
    /\ UNCHANGED Inputs

\* the initial guess handed to the optimizer: the joint variables of the
\* instant, the accelerations as given and the rest zero
InitialGuess(r, t, joint_accels) ==
    [key \in UNION {{JointAngleKey(r.joints[idx].id, t),
                     JointVelKey(r.joints[idx].id, t),
                     JointAccelKey(r.joints[idx].id, t),
                     TorqueKey(r.joints[idx].id, t)} : idx \in 1..numJoints(r)} |->
        IF key.chr = "a"
        THEN LET idx == CHOOSE idx \in 1..numJoints(r) :
                            key = JointAccelKey(r.joints[idx].id, t)
             IN  Value("double", joint_accels[idx])
        ELSE Value("double", 0)]

\* the caller solves the priors forwardDynamicsPriors returned
Calloptimize ==
    /\ call.op = "forwardDynamicsPriors" /\ ret.ok
    /\ ForwardReadsInRange(robot, call.joint_angles, call.joint_vels,
                           call.torques)
    /\ \E optim_type \in OptimizerTypes \cup {"other"},
          joint_accels \in {v \in Vectors : Len(v) = numJoints(robot)} :
        LET result == optimize(ret.graph,
                               InitialGuess(robot, call.t, joint_accels),
                               optim_type)
        IN  /\ call' = [call EXCEPT !.op = "optimize"]
            /\ ret' = IF result.ok THEN Returned(<<>>) ELSE Thrown(result.what)
            /\ values' = result.map
            /\ UNCHANGED <<robot, robots, phase_steps, transition_graphs>>

\* The caller holds the assignment optimize returned.
HoldsResult == call.op = "optimize" /\ ret.ok

ReadjointAngles ==
    /\ HoldsResult
    /\ call' = [call EXCEPT !.op = "jointAngles"]
    /\ ret' = jointAngles(robot, values, call.t)
    /\ UNCHANGED Inputs

ReadjointVels ==
    /\ HoldsResult
    /\ call' = [call EXCEPT !.op = "jointVels"]
    /\ ret' = jointVels(robot, values, call.t)
    /\ UNCHANGED Inputs

ReadjointAccels ==
    /\ HoldsResult
    /\ call' = [call EXCEPT !.op = "jointAccels"]
    /\ ret' = jointAccels(robot, values, call.t)
    /\ UNCHANGED Inputs

NextArguments ==
    \/ CallforwardDynamicsPriors
    \/ CalltrajectoryFDPriors
    \/ CallmultiPhaseTrajectoryFGOnAnyLists
    \/ Calloptimize
    \/ ReadjointAngles
    \/ ReadjointVels
    \/ ReadjointAccels

SpecArguments == InitArguments /\ [][NextArguments]_vars

(***************************************************************************)
(* SpecSequence: any number of builder calls, one after another, on one    *)
(* robot.  Every builder method declares its own NonlinearFactorGraph and  *)
(* returns it; the builder object holds only its options.                  *)
(***************************************************************************)
\* a graph kept between calls in place of the local one
StartGraph_Member(previous) == previous.graph

\* NonlinearFactorGraph graph;  the graph a method starts from, whatever
\* the previous call returned
StartGraph(previous) == <<>>

\* the method's factors added to the graph it started from
BuiltFrom(previous, result) ==
    IF result.ok THEN [result EXCEPT !.graph = StartGraph(previous) \o @]
    ELSE result

SequenceRobots == {SingleBody, SimpleArm, SerialArmB, ClosedLoop, OverDegree}

InitSequence ==
    /\ robot \in SequenceRobots
    /\ robots = <<>>
    /\ phase_steps = <<>>
    /\ transition_graphs = <<>>
    /\ values = NoValues
    /\ call = NoCall
    /\ ret = Returned(<<>>)

NextqFactors ==
    \E t \in Times :
        /\ call' = Call("qFactors", t)
        /\ ret' = BuiltFrom(ret, Returned(qFactors(robot, t)))
        /\ UNCHANGED Inputs

NextvFactors ==
    \E t \in Times :
        /\ call' = Call("vFactors", t)
        /\ ret' = BuiltFrom(ret, Returned(vFactors(robot, t)))
        /\ UNCHANGED Inputs

NextaFactors ==
    \E t \in Times :
        /\ call' = Call("aFactors", t)
        /\ ret' = BuiltFrom(ret, Returned(aFactors(robot, t)))
        /\ UNCHANGED Inputs

NextdynamicsFactors ==
    \E t \in Times, gravity \in BOOLEAN, planar_axis \in BOOLEAN :
        /\ call' = [Call("dynamicsFactors", t) EXCEPT
                        !.gravity = gravity, !.planar_axis = planar_axis]
        /\ ret' = BuiltFrom(ret, dynamicsFactors(robot, t, gravity, planar_axis))
        /\ UNCHANGED Inputs

NextdynamicsFactorGraph ==
    \E t \in Times, gravity \in BOOLEAN, planar_axis \in BOOLEAN :
        /\ call' = [Call("dynamicsFactorGraph", t) EXCEPT
                        !.gravity = gravity, !.planar_axis = planar_axis]
        /\ ret' = BuiltFrom(ret, dynamicsFactorGraph(robot, t, gravity,
                                                     planar_axis))
        /\ UNCHANGED Inputs

NextcollocationFactors ==
    \E t \in Times, dt \in 1..MaxDt, collocation \in CollocationSchemes :
        /\ call' = [Call("collocationFactors", t) EXCEPT
                        !.dt = dt, !.collocation = collocation]
        /\ ret' = BuiltFrom(ret, collocationFactors(robot, t, dt, collocation))
        /\ UNCHANGED Inputs

NexttrajectoryFG ==
    \E num_steps \in 0..MaxSteps, collocation \in CollocationSchemes :
        /\ call' = [Call("trajectoryFG", 0) EXCEPT
                        !.num_steps = num_steps, !.dt = 1,
                        !.collocation = collocation]
        /\ ret' = BuiltFrom(ret, trajectoryFG(robot, num_steps, 1, collocation,
                                              FALSE, FALSE))
        /\ UNCHANGED Inputs

NextforwardDynamicsPriors ==
    \E t \in Times, base \in VectorBases :
        LET q == Vector(numJoints(robot), base)
        IN  /\ call' = PriorCall("forwardDynamicsPriors", t, 0, q, q, q, <<>>)
            /\ ret' = BuiltFrom(ret, forwardDynamicsPriors(robot, t, q, q, q, 0))
            /\ UNCHANGED Inputs

\* zeroValues declares its own gtsam::Values and returns it
NextzeroValues ==
    \E t \in Times :
        LET zero == zeroValues(robot, t)
        IN  /\ call' = Call("zeroValues", t)
            /\ ret' = IF zero.ok THEN Returned(<<>>) ELSE Thrown(zero.what)
            /\ values' = zero.map
            /\ UNCHANGED <<robot, robots, phase_steps, transition_graphs>>

NextSequence ==
    \/ NextqFactors
    \/ NextvFactors
    \/ NextaFactors
    \/ NextdynamicsFactors
    \/ NextdynamicsFactorGraph
    \/ NextcollocationFactors
    \/ NexttrajectoryFG
    \/ NextforwardDynamicsPriors
    \/ NextzeroValues

SpecSequence == InitSequence /\ [][NextSequence]_vars

(***************************************************************************)
(* SpecConcurrent: two graph-building calls on one robot, interleaved at   *)
(* the iterations of trajectoryFG's loop.  call[p] is the call of caller   *)
(* p and ret[p] its frame: the local graph, the loop counter t, and done   *)
(* once the call has returned or thrown.                                   *)
(***************************************************************************)
Callers == {1, 2}

Frame(ok, what, graph, t, done) ==
    [ok |-> ok, what |-> what, graph |-> graph, t |-> t, done |-> done]

\* NonlinearFactorGraph graph; int t = 0
NewFrame == Frame(TRUE, "", <<>>, 0, FALSE)

\* one graph written by every call in place of the call's local one
TrajectoryIteration_SharedGraph(frames, p, r, c) ==
    LET f == frames[p]
        instant == dynamicsFactorGraph(r, f.t, c.gravity, c.planar_axis)
        step == IF f.t < c.num_steps
                THEN collocationFactors(r, f.t, c.dt, c.collocation)
                ELSE Returned(<<>>)
    IN  IF ~(f.t < c.num_steps + 1)
        THEN [frames EXCEPT ![p].done = TRUE]
        ELSE IF ~instant.ok \/ ~step.ok
        THEN [frames EXCEPT ![p] = Frame(FALSE, "thrown", <<>>, f.t, TRUE)]
        ELSE [q \in DOMAIN frames |->
                [frames[q] EXCEPT
                    !.graph = @ \o instant.graph \o step.graph,
                    !.t = IF q = p THEN @ + 1 ELSE @]]

\* one evaluation of the loop condition of trajectoryFG and, when it holds,
\* one execution of the body: it reads the robot and the call's arguments
\* and writes the call's own graph and t
TrajectoryIteration(frames, p, r, c) ==
    LET f == frames[p]
        instant == dynamicsFactorGraph(r, f.t, c.gravity, c.planar_axis)
        step == IF f.t < c.num_steps
                THEN collocationFactors(r, f.t, c.dt, c.collocation)
                ELSE Returned(<<>>)
    IN  IF ~(f.t < c.num_steps + 1)
        THEN [frames EXCEPT ![p].done = TRUE]
        ELSE IF ~instant.ok
        THEN [frames EXCEPT ![p] = Frame(FALSE, instant.what, <<>>, f.t, TRUE)]
        ELSE IF ~step.ok
        THEN [frames EXCEPT ![p] = Frame(FALSE, step.what, <<>>, f.t, TRUE)]
        ELSE [frames EXCEPT ![p].graph = @ \o instant.graph \o step.graph,
                            ![p].t = @ + 1]

\* the whole of dynamicsFactorGraph for the call's time index
InstantCall(frames, p, r, c) ==
    LET instant == dynamicsFactorGraph(r, c.t, c.gravity, c.planar_axis)
    IN  [frames EXCEPT
            ![p] = Frame(instant.ok, instant.what, instant.graph, c.t, TRUE)]

ConcurrentRobots == {SimpleArm, SerialArm, OverDegree}

ConcurrentCalls ==
    {[Call("trajectoryFG", 0) EXCEPT !.num_steps = num_steps, !.dt = 1,
                                     !.collocation = collocation] :
        num_steps \in 0..MaxSteps, collocation \in {"Euler", "Trapezoidal"}}
    \cup {[Call("dynamicsFactorGraph", t) EXCEPT !.gravity = gravity] :
            t \in Times, gravity \in BOOLEAN}

InitConcurrent ==
    /\ robot \in ConcurrentRobots
    /\ robots = <<>>
    /\ phase_steps = <<>>
    /\ transition_graphs = <<>>
    /\ values = NoValues
    /\ call \in [Callers -> ConcurrentCalls]
    /\ ret = [p \in Callers |-> NewFrame]

SteptrajectoryFG ==
    \E p \in Callers :
        /\ call[p].op = "trajectoryFG"
        /\ ~ret[p].done
        /\ ret' = TrajectoryIteration(ret, p, robot, call[p])
        /\ UNCHANGED <<call, robot, robots, phase_steps, transition_graphs,
                       values>>

StepdynamicsFactorGraph ==
    \E p \in Callers :
        /\ call[p].op = "dynamicsFactorGraph"
        /\ ~ret[p].done
        /\ ret' = InstantCall(ret, p, robot, call[p])
        /\ UNCHANGED <<call, robot, robots, phase_steps, transition_graphs,
                       values>>

NextConcurrent ==
    \/ SteptrajectoryFG
    \/ StepdynamicsFactorGraph

SpecConcurrent == InitConcurrent /\ [][NextConcurrent]_vars

(***************************************************************************)
(* SpecStructure: a description is extracted, a robot is constructed from  *)
(* the extracted links and joints, and the robot is queried.               *)
(***************************************************************************)
LinkNames == <<"l0", "l1", "l2", "l3", "l4">>
JointNames == <<"j0", "j1", "j2", "j3", "j4">>
UnknownLink == "lx"

\* urdfs/test/four_bar_linkage.urdf as the loop test reads it: a ring
\* l1 - l2 - l3 - l4 - l1 hung from l0
FourBar ==
    Description(LinkNames,
                <<DescribedJoint("j0", "l0", "l1"), DescribedJoint("j1", "l1", "l2"),
                  DescribedJoint("j2", "l2", "l3"), DescribedJoint("j3", "l3", "l4"),
                  DescribedJoint("j4", "l4", "l1")>>)

\* urdfs/test/simple_urdf.urdf: l1 - j1 - l2
SimpleUrdf == Description(<<"l1", "l2">>, <<DescribedJoint("j1", "l1", "l2")>>)

DescribedLinkCounts == 1..3
DescribedJointCounts == 0..2

\* descriptions of a few links and joints between any two different names,
\* known or not
SmallDescriptions ==
    UNION {UNION {
        {Description(SubSeq(LinkNames, 1, nl),
                     [k \in 1..nj |-> DescribedJoint(JointNames[k], e[k][1], e[k][2])]) :
            e \in [1..nj -> {p \in (Range(SubSeq(LinkNames, 1, nl)) \cup {UnknownLink})
                                    \X (Range(SubSeq(LinkNames, 1, nl)) \cup {UnknownLink}) :
                                p[1] # p[2]}]} :
        nj \in DescribedJointCounts} : nl \in DescribedLinkCounts}

Descriptions == {FourBar, SimpleUrdf} \cup SmallDescriptions

Angles == {RestAngle, 1}

\* the maps from some of the robot's joints to an angle
AngleMaps(r) ==
    UNION {[some -> Angles] : some \in SUBSET {r.joints[k].name : k \in 1..Len(r.joints)}}

InitStructure ==
    /\ robot = NoRobot
    /\ robots = <<>>
    /\ phase_steps = <<>>
    /\ transition_graphs = <<>>
    /\ values = NoValues
    /\ call = NoCall
    /\ ret = Returned(<<>>)

Callextract_structure_from_urdf ==
    /\ Idle
    /\ \E urdf \in Descriptions :
        /\ call' = [op |-> "extract_structure_from_urdf", urdf |-> urdf]
        /\ ret' = extract_structure_from_urdf(urdf)
    /\ UNCHANGED Inputs

\* the constructor is given what the extraction returned
CallUniversalRobot ==
    /\ call.op = "extract_structure_from_urdf"
    /\ ret.ok
    /\ call' = [op |-> "UniversalRobot", urdf |-> call.urdf]
    /\ ret' = UniversalRobot(ret)
    /\ robot' = IF UniversalRobot(ret).ok
                THEN [links |-> ret.links, joints |-> ret.joints]
                ELSE NoRobot
    /\ UNCHANGED <<robots, phase_steps, transition_graphs, values>>

Constructed == call.op = "UniversalRobot" /\ ret.ok

CallgetJointBetweenLinks ==
    /\ Constructed
    /\ \E l1, l2 \in {robot.links[k].name : k \in 1..Len(robot.links)} :
        /\ call' = [op |-> "getJointBetweenLinks", l1 |-> l1, l2 |-> l2]
        /\ ret' = getJointBetweenLinks(robot, l1, l2)
    /\ UNCHANGED Inputs

CalllinkTransforms ==
    /\ Constructed
    /\ \E joint_name_to_angle \in AngleMaps(robot) :
        /\ call' = [op |-> "linkTransforms",
                    joint_name_to_angle |-> joint_name_to_angle]
        /\ ret' = [ok |-> TRUE, what |-> "",
                   transforms |-> linkTransforms(robot, joint_name_to_angle)]
    /\ UNCHANGED Inputs

CallscrewAxes ==
    /\ Constructed
    /\ call' = [op |-> "screwAxes"]
    /\ ret' = screwAxes(robot)
    /\ UNCHANGED Inputs

CalljointLowerLimits ==
    /\ Constructed
    /\ call' = [op |-> "jointLowerLimits"]
    /\ ret' = jointLowerLimits(robot)
    /\ UNCHANGED Inputs

CalljointUpperLimits ==
    /\ Constructed
    /\ call' = [op |-> "jointUpperLimits"]
    /\ ret' = jointUpperLimits(robot)
    /\ UNCHANGED Inputs

CalljointLimitThresholds ==
    /\ Constructed
    /\ call' = [op |-> "jointLimitThresholds"]
    /\ ret' = jointLimitThresholds(robot)
    /\ UNCHANGED Inputs

CallgetLinkByName ==
    /\ Constructed
    /\ \E name \in {robot.links[k].name : k \in 1..Len(robot.links)} :
        /\ call' = [op |-> "getLinkByName", name |-> name]
        /\ ret' = getLinkByName(robot, name)
    /\ UNCHANGED Inputs

CallgetJointByName ==
    /\ Constructed
    /\ \E name \in {robot.joints[k].name : k \in 1..Len(robot.joints)} :
        /\ call' = [op |-> "getJointByName", name |-> name]
        /\ ret' = getJointByName(robot, name)
    /\ UNCHANGED Inputs

NextStructure ==
    \/ Callextract_structure_from_urdf
    \/ CallUniversalRobot
    \/ CallgetJointBetweenLinks
    \/ CalllinkTransforms
    \/ CallscrewAxes
    \/ CalljointLowerLimits
    \/ CalljointUpperLimits
    \/ CalljointLimitThresholds
    \/ CallgetLinkByName
    \/ CallgetJointByName

SpecStructure == InitStructure /\ [][NextStructure]_vars

(***************************************************************************)
(* SpecJoint: a builder call on a robot, then the JointTyped call of the   *)
(* same family on one of the robot's joints with the same t (and planar    *)
(* axis); the caller keeps the builder's graph.                            *)
(***************************************************************************)
JointRobots == (Fixtures \ {OverDegree}) \cup {SimpleArmB, SerialArmB}

InitJoint ==
    /\ robot \in JointRobots
    /\ robots = <<>>
    /\ phase_steps = <<>>
    /\ transition_graphs = <<>>
    /\ values = NoValues
    /\ call = NoCall
    /\ ret = Returned(<<>>)

JointCall(op, joint, built) ==
    [op |-> op, t |-> call.t, planar_axis |-> call.planar_axis,
     joint |-> joint, built |-> built]

CallJointTyped_qFactors ==
    /\ call.op = "qFactors" /\ ret.ok
    /\ \E k \in 1..numJoints(robot) :
        /\ call' = JointCall("JointTyped::qFactors", robot.joints[k], ret.graph)
        /\ ret' = Returned(JointTyped_qFactors(robot.joints[k], call.t))
    /\ UNCHANGED Inputs

CallJointTyped_vFactors ==
    /\ call.op = "vFactors" /\ ret.ok
    /\ \E k \in 1..numJoints(robot) :
        /\ call' = JointCall("JointTyped::vFactors", robot.joints[k], ret.graph)
        /\ ret' = Returned(JointTyped_vFactors(robot.joints[k], call.t))
    /\ UNCHANGED Inputs

CallJointTyped_aFactors ==
    /\ call.op = "aFactors" /\ ret.ok
    /\ \E k \in 1..numJoints(robot) :
        /\ call' = JointCall("JointTyped::aFactors", robot.joints[k], ret.graph)
        /\ ret' = Returned(JointTyped_aFactors(robot.joints[k], call.t))
    /\ UNCHANGED Inputs

CallJointTyped_dynamicsFactors ==
    /\ call.op = "dynamicsFactors" /\ ret.ok
    /\ \E k \in 1..numJoints(robot) :
        /\ call' = JointCall("JointTyped::dynamicsFactors", robot.joints[k],
                             ret.graph)
        /\ ret' = Returned(JointTyped_dynamicsFactors(robot.joints[k], call.t,
                                                      call.planar_axis))
    /\ UNCHANGED Inputs

NextJoint ==
    \/ CallqFactors
    \/ CallvFactors
    \/ CallaFactors
    \/ CalldynamicsFactors
    \/ CallJointTyped_qFactors
    \/ CallJointTyped_vFactors
    \/ CallJointTyped_aFactors
    \/ CallJointTyped_dynamicsFactors

SpecJoint == InitJoint /\ [][NextJoint]_vars

(***************************************************************************)
(* SpecContacts: dynamicsFactorGraph called with a contacts argument,      *)
(* absent (boost::none) or a list of link indices.                         *)
(***************************************************************************)
\* boost::none, or a vector of link indices
NoContacts == [present |-> FALSE, links |-> <<>>]
Contacts(links) == [present |-> TRUE, links |-> links]

ContactArguments == {NoContacts, Contacts(<<>>), Contacts(<<0>>), Contacts(<<0, 1>>)}

InitContacts ==
    /\ robot \in Fixtures
    /\ robots = <<>>
    /\ phase_steps = <<>>
    /\ transition_graphs = <<>>
    /\ values = NoValues
    /\ call = NoCall
    /\ ret = Returned(<<>>)

CalldynamicsFactorGraphWithContacts ==
    /\ Idle
    /\ \E t \in Times, gravity \in BOOLEAN, planar_axis \in BOOLEAN,
          contacts \in ContactArguments :
        /\ call' = [op |-> "dynamicsFactorGraph", t |-> t, gravity |-> gravity,
                    planar_axis |-> planar_axis, contacts |-> contacts]
        /\ ret' = dynamicsFactorGraphWithContacts(robot, t, gravity,
                                                  planar_axis, contacts)
        /\ UNCHANGED Inputs

NextContacts == CalldynamicsFactorGraphWithContacts

SpecContacts == InitContacts /\ [][NextContacts]_vars

(***************************************************************************)
(* Claims about the per-instant constraint set (Spec).                     *)
(***************************************************************************)
LinkCount(r) == Len(r.links)
JointCount(r) == Len(r.joints)
FixedCount(r) == Cardinality({a \in 1..Len(r.links) : r.links[a].fixed})

\* The non-fixed links, in links() order.
RECURSIVE MovingFrom(_, _)
MovingFrom(r, a) ==
    IF a > Len(r.links) THEN <<>>
    ELSE (IF r.links[a].fixed THEN <<>> ELSE <<r.links[a]>>)
         \o MovingFrom(r, a + 1)

\* The joints of the joint list that have the link as parent or child.
JointsAt(r, link) ==
    {k \in 1..Len(r.joints) :
        link.id \in {r.joints[k].parent, r.joints[k].child}}

DegreesSupported(r) ==
    \A a \in 1..Len(r.links) :
        ~r.links[a].fixed => Cardinality(JointsAt(r, r.links[a])) <= 4

\* C1: without a planar axis, on a robot whose non-fixed links have at most
\* 4 joints each, dynamicsFactorGraph returns exactly 3*F + 5*J + (L - F)
\* constraints (F fixed links, J joints, L links).
C1_InstantSize ==
    (call.op = "dynamicsFactorGraph" /\ ~call.planar_axis
        /\ DegreesSupported(robot))
    => /\ ret.ok
       /\ Len(ret.graph) = 3 * FixedCount(robot) + 5 * JointCount(robot)
                           + (LinkCount(robot) - FixedCount(robot))

\* A three-link robot with a fixed link, a moving link of degree 4 and
\* another moving link, built without a planar axis.
C1_Witness ==
    /\ call.op = "dynamicsFactorGraph" /\ ~call.planar_axis
    /\ DegreesSupported(robot)
    /\ FixedCount(robot) = 1 /\ LinkCount(robot) = 3 /\ JointCount(robot) = 4
    /\ \E a \in 1..3 : ~robot.links[a].fixed
                       /\ Cardinality(JointsAt(robot, robot.links[a])) = 4
    /\ Len(ret.graph) = 25

WrenchFactorsIn(g) == SelectSeq(g, LAMBDA f : f.type = "WrenchFactor")

WrenchKeysOf(f) == {k \in Range(f.keys) : k.chr = "F"}

\* C2: dynamicsFactors emits one wrench-balance constraint per non-fixed
\* link and none for a fixed link, over exactly the wrench keys
\* WrenchKey(link, j, t) of the joints j at the link (arity = degree, 0..4);
\* with a non-fixed link of 5 or more joints it throws and returns nothing.
C2_WrenchBalance ==
    call.op = "dynamicsFactors" =>
        IF DegreesSupported(robot)
        THEN /\ ret.ok
             /\ LET wf == WrenchFactorsIn(ret.graph)
                    moving == MovingFrom(robot, 1)
                IN  /\ Len(wf) = Len(moving)
                    /\ \A k \in 1..Len(moving) :
                        LET at == JointsAt(robot, moving[k])
                        IN  /\ wf[k].keys[1] = TwistKey(moving[k].id, call.t)
                            /\ WrenchKeysOf(wf[k]) =
                                 {WrenchKey(moving[k].id, robot.joints[j].id, call.t) :
                                    j \in at}
                            /\ Len(wf[k].keys) = 3 + Cardinality(at)
                            /\ Cardinality(at) \in 0..4
        ELSE /\ ~ret.ok
             /\ ret.what = WrenchNotDefined
             /\ ret.graph = <<>>

\* A robot with a fixed link of degree 5 beside moving links of lower degree:
\* the call succeeds and leaves the fixed link without a wrench constraint.
C2_Witness ==
    /\ call.op = "dynamicsFactors" /\ ret.ok
    /\ \E a \in 1..Len(robot.links) :
        robot.links[a].fixed /\ Len(robot.links[a].joints) = 5
    /\ \E a \in 1..Len(robot.links) :
        ~robot.links[a].fixed /\ Len(robot.links[a].joints) = 3
    /\ Len(WrenchFactorsIn(ret.graph)) = 2

\* A moving link with 5 joints: the call throws.
C2_WitnessThrow ==
    /\ call.op = "dynamicsFactors" /\ ~ret.ok
    /\ \E a \in 1..Len(robot.links) :
        ~robot.links[a].fixed /\ Len(robot.links[a].joints) = 5

(***************************************************************************)
(* Claims about collocation and trajectory assembly (SpecTraj, SpecPhases).*)
(***************************************************************************)
\* C3: with a scheme other than Euler or Trapezoidal, collocationFactors,
\* multiPhaseCollocationFactors and trajectoryFG fail with the
\* not-implemented error and return no constraint set.
C3_UnsupportedSchemeFails ==
    (call.op \in {"collocationFactors", "multiPhaseCollocationFactors",
                  "trajectoryFG"}
        /\ call.collocation \notin {"Euler", "Trapezoidal"})
    => /\ ~ret.ok
       /\ ret.what = NotImplemented
       /\ ret.graph = <<>>

\* The per-instant set and the collocation set of the call's robot.
InstantSet(t) ==
    dynamicsFactorGraph(robot, t, call.gravity, call.planar_axis).graph

CollocationSet(t) ==
    collocationFactors(robot, t, call.dt, call.collocation).graph

\* C4: for N >= 0 and Euler or Trapezoidal, trajectoryFG is instant 0,
\* collocation(0,1), instant 1, ..., collocation(N-1,N), instant N, and has
\* (N+1) * |per-instant set| + N * 2 * J constraints.
C4_TrajectoryOrder ==
    (call.op = "trajectoryFG" /\ call.collocation \in {"Euler", "Trapezoidal"}
        /\ DegreesSupported(robot))
    => LET N == call.num_steps
       IN  /\ ret.ok
           /\ ret.graph =
                Flatten([k \in 1..(2 * N + 1) |->
                           IF k % 2 = 1 THEN InstantSet((k - 1) \div 2)
                           ELSE CollocationSet((k - 2) \div 2)])
           /\ Len(ret.graph) =
                (N + 1) * Len(InstantSet(0)) + N * 2 * JointCount(robot)

\* A two-step trajectory of the closed loop.
C4_Witness ==
    /\ call.op = "trajectoryFG" /\ call.collocation = "Trapezoidal"
    /\ call.num_steps = 2 /\ robot = ClosedLoop /\ ret.ok
    /\ Len(ret.graph) = 3 * Len(InstantSet(0)) + 12

\* First time index of phase p (1-based): the steps of the phases before it.
PhaseStart(p) == SumSeq(SubSeq(phase_steps, 1, p - 1))

PhaseInstant(p, t) == dynamicsFactorGraph(robots[p], t, FALSE, FALSE).graph

PhaseInstants(p) ==
    Flatten([i \in 1..(phase_steps[p] - 1) |-> PhaseInstant(p, PhaseStart(p) + i)])
    \o (IF p < Len(robots)
        THEN transition_graphs[p]
        ELSE PhaseInstant(p, PhaseStart(p) + phase_steps[p]))

PhaseCollocations(p) ==
    Flatten([i \in 1..phase_steps[p] |->
               multiPhaseCollocationFactors(robots[p], PhaseStart(p) + i - 1,
                                            p - 1, call.collocation).graph])

\* C5: with every step count >= 1, multiPhaseTrajectoryFG is the instant 0
\* of robot 0; per phase p its s_p - 1 interior instants of robot p, then
\* transition_graphs[p] (not the last phase) or one more instant of the last
\* robot; then, per phase p, s_p collocation sets of robot p keyed by p over
\* the steps 0..S-1.
C5_MultiPhaseOrder ==
    (call.op = "multiPhaseTrajectoryFG"
        /\ call.collocation \in {"Euler", "Trapezoidal"}
        /\ \A p \in 1..Len(phase_steps) : phase_steps[p] >= 1)
    => /\ ret.ok
       /\ ret.graph =
            PhaseInstant(1, 0)
            \o Flatten([p \in 1..Len(robots) |-> PhaseInstants(p)])
            \o Flatten([p \in 1..Len(robots) |-> PhaseCollocations(p)])

\* Two phases of two steps each over different robots, with a supplied
\* transition graph at the boundary.
C5_Witness ==
    /\ call.op = "multiPhaseTrajectoryFG" /\ call.collocation = "Euler"
    /\ Len(robots) = 2 /\ robots[1] = SimpleArm /\ robots[2] = FreeArm
    /\ phase_steps = <<2, 2>>
    /\ Len(transition_graphs[1]) = 1
    /\ ret.ok
    /\ Len(ret.graph) = 9 + 9 + 1 + 7 + 7 + 8

(***************************************************************************)
(* Claims about the collocation residuals (SpecResidual).                  *)
(***************************************************************************)
\* Twice the residual of an expression factor under an assignment: the
\* factor is satisfied exactly when it is 0.
Residual2(f, vals) == ExprValue2(f.expr, vals) - 2 * f.measured

Satisfied(g, vals) == \A k \in 1..Len(g) : Residual2(g[k], vals) = 0

\* The sampled values of joint j: angle, velocity, acceleration at the
\* sample time and one step later.
Q0(j) == values[JointAngleKey(j, SampleTime)].v
Q1(j) == values[JointAngleKey(j, SampleTime + 1)].v
V0(j) == values[JointVelKey(j, SampleTime)].v
V1(j) == values[JointVelKey(j, SampleTime + 1)].v
A0(j) == values[JointAccelKey(j, SampleTime)].v
A1(j) == values[JointAccelKey(j, SampleTime + 1)].v

SampledStep == call.t = SampleTime /\ values # NoValues

\* C6: Euler collocation emits two constraints per joint, satisfied exactly
\* when q1 = q0 + dt*v0 and v1 = v0 + dt*a0 (a perturbed q1 leaves a
\* non-zero residual), and they do not involve the acceleration at t+1.
C6_Euler ==
    (call.op = "collocationFactors" /\ call.collocation = "Euler" /\ SampledStep)
    => /\ ret.ok
       /\ Len(ret.graph) = 2 * JointCount(robot)
       /\ \A k \in 1..JointCount(robot) :
            LET j == robot.joints[k].id
            IN  /\ (Residual2(ret.graph[2 * k - 1], values) = 0)
                     <=> (Q1(j) = Q0(j) + call.dt * V0(j))
                /\ (Residual2(ret.graph[2 * k], values) = 0)
                     <=> (V1(j) = V0(j) + call.dt * A0(j))
                /\ \A i \in {2 * k - 1, 2 * k} :
                     JointAccelKey(j, call.t + 1) \notin ExprKeys(ret.graph[i].expr)

\* An Euler step with a non-zero velocity and acceleration that satisfies
\* both constraints.
C6_Witness ==
    /\ call.op = "collocationFactors" /\ call.collocation = "Euler" /\ SampledStep
    /\ call.dt = 2
    /\ LET j == robot.joints[1].id
       IN  V0(j) = 1 /\ A0(j) = -1 /\ Q1(j) # Q0(j)
    /\ Satisfied(ret.graph, values)

\* C7: Trapezoidal collocation emits two constraints per joint, satisfied
\* exactly when q1 = q0 + dt/2*(v0 + v1) and v1 = v0 + dt/2*(a0 + a1).
C7_Trapezoidal ==
    (call.op = "collocationFactors" /\ call.collocation = "Trapezoidal"
        /\ SampledStep)
    => /\ ret.ok
       /\ Len(ret.graph) = 2 * JointCount(robot)
       /\ \A k \in 1..JointCount(robot) :
            LET j == robot.joints[k].id
            IN  /\ (Residual2(ret.graph[2 * k - 1], values) = 0)
                     <=> (2 * Q1(j) = 2 * Q0(j) + call.dt * (V0(j) + V1(j)))
                /\ (Residual2(ret.graph[2 * k], values) = 0)
                     <=> (2 * V1(j) = 2 * V0(j) + call.dt * (A0(j) + A1(j)))

\* A trapezoidal step with different velocities at the two ends that
\* satisfies both constraints.
C7_Witness ==
    /\ call.op = "collocationFactors" /\ call.collocation = "Trapezoidal"
    /\ SampledStep
    /\ call.dt = 2
    /\ LET j == robot.joints[1].id
       IN  V0(j) = 0 /\ V1(j) = 1 /\ A1(j) = 1
    /\ Satisfied(ret.graph, values)

\* C8: the multi-phase collocation factors are satisfied exactly when the
\* fixed-step ones are with dt = the value of PhaseKey(p); both are 2 per
\* joint, over the same joint variables, the multi-phase ones adding only
\* PhaseKey(p).
C8_PhaseStep ==
    (call.op = "multiPhaseCollocationFactors" /\ SampledStep)
    => LET fixed == collocationFactors(robot, call.t,
                                       values[PhaseKey(call.phase)].v,
                                       call.collocation).graph
       IN  /\ ret.ok
           /\ Len(ret.graph) = 2 * JointCount(robot)
           /\ Len(fixed) = Len(ret.graph)
           /\ Satisfied(ret.graph, values) <=> Satisfied(fixed, values)
           /\ \A k \in 1..Len(fixed) :
                /\ (Residual2(ret.graph[k], values) = 0)
                     <=> (Residual2(fixed[k], values) = 0)
                /\ ExprKeys(ret.graph[k].expr) =
                     ExprKeys(fixed[k].expr) \cup {PhaseKey(call.phase)}

\* A trapezoidal multi-phase step of duration 2 that is satisfied.
C8_Witness ==
    /\ call.op = "multiPhaseCollocationFactors" /\ SampledStep
    /\ call.collocation = "Trapezoidal"
    /\ values[PhaseKey(0)].v = 2
    /\ LET j == robot.joints[1].id
       IN  V0(j) = 1 /\ V1(j) = -1 /\ A0(j) = -1
    /\ Satisfied(ret.graph, values)

(***************************************************************************)
(* Claims about zeroValues and the read-back helpers (SpecValues).         *)
(***************************************************************************)
ReadOps == {"jointAngles", "jointVels", "jointAccels"}

\* the assignment read was built by zeroValues for the time index read
ReadAtBuiltTime == \E k \in DOMAIN values : k.index = call.t

\* C9: for every robot and time index t, zeroValues(robot, t) returns an
\* assignment, and jointAngles, jointVels and jointAccels read at t out of it
\* succeed and return the zero vector of length numJoints.
C9_ZeroReadBack ==
    /\ call.op = "zeroValues" => ret.ok
    /\ (call.op \in ReadOps /\ ReadAtBuiltTime)
       => /\ ret.ok
          /\ ret.vec = [idx \in 1..JointCount(robot) |-> 0]

\* What holds of the code: the read-back of an assignment zeroValues
\* returned is the zero vector (zeroValues itself may throw).
ZeroReadBackWhenBuilt ==
    (call.op \in ReadOps /\ ReadAtBuiltTime)
    => /\ ret.ok
       /\ ret.vec = [idx \in 1..JointCount(robot) |-> 0]

ZeroReadBackReached ==
    /\ call.op = "jointVels" /\ ReadAtBuiltTime
    /\ JointCount(robot) = 3 /\ ret.vec = <<0, 0, 0>>

(***************************************************************************)
(* Claims about the variable keys (SpecKeys).                              *)
(***************************************************************************)
\* every request for a key over the sampled ids
KeyRequests ==
    {LinkKeyCall(op, i, t) : op \in LinkKeyOps, i \in KeyIds, t \in Times}
    \cup {JointKeyCall(op, j, t) : op \in JointKeyOps, j \in KeyIds, t \in Times}
    \cup {WrenchKeyCall(w[1], w[2], t) : w \in KeyIds \X KeyIds, t \in Times}
    \cup {PhaseKeyCall(k) : k \in PhaseIds}

KeyOf(d) ==
    CASE d.op = "PoseKey" -> PoseKey(d.i, d.t)
      [] d.op = "TwistKey" -> TwistKey(d.i, d.t)
      [] d.op = "TwistAccelKey" -> TwistAccelKey(d.i, d.t)
      [] d.op = "WrenchKey" -> WrenchKey(d.i, d.j, d.t)
      [] d.op = "TorqueKey" -> TorqueKey(d.j, d.t)
      [] d.op = "JointAngleKey" -> JointAngleKey(d.j, d.t)
      [] d.op = "JointVelKey" -> JointVelKey(d.j, d.t)
      [] d.op = "JointAccelKey" -> JointAccelKey(d.j, d.t)
      [] d.op = "PhaseKey" -> PhaseKey(d.k)

RoleOfChr ==
    [c \in {"p", "V", "A", "F", "T", "q", "v", "a", "t"} |->
        CASE c = "p" -> "PoseKey" [] c = "V" -> "TwistKey"
          [] c = "A" -> "TwistAccelKey" [] c = "F" -> "WrenchKey"
          [] c = "T" -> "TorqueKey" [] c = "q" -> "JointAngleKey"
          [] c = "v" -> "JointVelKey" [] c = "a" -> "JointAccelKey"
          [] c = "t" -> "PhaseKey"]

\* role, ids and time index read back from a key: the character gives the
\* role, a wrench label splits into link id (div 16) and joint id (mod 16)
Recovered(key) ==
    LET op == RoleOfChr[key.chr]
    IN  IF op = "WrenchKey"
        THEN WrenchKeyCall(key.label \div 16, key.label % 16, key.index)
        ELSE IF op = "PhaseKey" THEN PhaseKeyCall(key.index)
        ELSE IF op \in LinkKeyOps THEN LinkKeyCall(op, key.label, key.index)
        ELSE JointKeyCall(op, key.label, key.index)

\* C10: the key functions are collision-free for all link ids, joint ids,
\* time indices and phase indices: the key built for one request equals the
\* key of a request only when role, ids and time index are all equal, and
\* role, ids and time index are recovered from the key.
C10_KeysCollisionFree ==
    call.op \in KeyOps
    => /\ \A d \in KeyRequests : KeyOf(d) = ret.key => d = call
       /\ Recovered(ret.key) = call

\* What holds of the code: the same for requests whose joint id is below the
\* base of the wrench label.
JointIdInRange(d) == d.op = "WrenchKey" => d.j < 16

KeysCollisionFreeInRange ==
    (call.op \in KeyOps /\ JointIdInRange(call))
    => /\ \A d \in KeyRequests :
            (JointIdInRange(d) /\ KeyOf(d) = ret.key) => d = call
       /\ Recovered(ret.key) = call

KeysInRangeReached ==
    /\ call = WrenchKeyCall(1, 15, MaxTime)
    /\ ret.text = <<"F", "1", "1", "5", "_">> \o Decimal(MaxTime) \o <<"\t">>

(***************************************************************************)
(* Claims about the prior builders and argument lengths (SpecArguments).   *)
(***************************************************************************)
ShortVectors ==
    \/ Len(call.joint_angles) < JointCount(robot)
    \/ Len(call.joint_vels) < JointCount(robot)

ForwardMismatch ==
    /\ call.op = "forwardDynamicsPriors"
    /\ ShortVectors \/ Len(call.torques) < JointCount(robot)

TrajectoryMismatch ==
    /\ call.op = "trajectoryFDPriors"
    /\ \/ ShortVectors
       \/ Len(call.torques_seq) < call.num_steps + 1
       \/ \E s \in 1..Len(call.torques_seq) :
             Len(call.torques_seq[s]) < JointCount(robot)

PhaseListMismatch ==
    /\ call.op = "multiPhaseTrajectoryFG"
    /\ \/ robots = <<>>
       \/ Len(phase_steps) < Len(robots)
       \/ Len(transition_graphs) < Len(robots) - 1

\* C11: a builder call whose vector arguments do not match the joint or
\* phase counts fails and emits no constraints: forwardDynamicsPriors or
\* trajectoryFDPriors with a joint_angles, joint_vels or torque vector
\* shorter than numJoints, trajectoryFDPriors with torques_seq shorter than
\* num_steps + 1, multiPhaseTrajectoryFG with no robots, with phase_steps
\* shorter than robots or with fewer than (phases - 1) transition graphs.
C11_MismatchFailsFast ==
    (ForwardMismatch \/ TrajectoryMismatch \/ PhaseListMismatch)
    => (~ret.ok /\ ret.graph = <<>>)

\* the priors of graph g on exactly the key list <<key>>
PriorsOn(g, key) ==
    {k \in 1..Len(g) : g[k].type = "PriorFactor" /\ g[k].keys = <<key>>}

\* graph g holds exactly one prior on key, and it pins key to value
PinsOnce(g, key, value) ==
    /\ Cardinality(PriorsOn(g, key)) = 1
    /\ \A k \in PriorsOn(g, key) : g[k].data = value

JointIdAt(idx) == robot.joints[idx].id

\* C20: with vectors of the lengths the call reads, forwardDynamicsPriors
\* (robot, t, q, v, tau) returns exactly 3*J priors: for the joint at every
\* position idx one on its angle, one on its velocity and one on its torque
\* at time t, pinned to q[idx], v[idx], tau[idx], and every key is of time t;
\* trajectoryFDPriors(robot, N, q, v, torques_seq) returns exactly
\* 2*J + (N+1)*J priors: angle and velocity of every joint at time 0 only,
\* and the torque of every joint at every t in 0..N pinned to
\* torques_seq[t][idx].
C20_PriorCounts ==
    LET J == JointCount(robot)
        g == ret.graph
    IN  /\ (call.op = "forwardDynamicsPriors" /\ ~ForwardMismatch)
           => /\ ret.ok
              /\ Len(g) = 3 * J
              /\ \A k \in 1..Len(g) : g[k].keys[1].index = call.t
              /\ \A idx \in 1..J :
                    /\ PinsOnce(g, JointAngleKey(JointIdAt(idx), call.t),
                                call.joint_angles[idx])
                    /\ PinsOnce(g, JointVelKey(JointIdAt(idx), call.t),
                                call.joint_vels[idx])
                    /\ PinsOnce(g, TorqueKey(JointIdAt(idx), call.t),
                                call.torques[idx])
        /\ (call.op = "trajectoryFDPriors" /\ ~TrajectoryMismatch)
           => /\ ret.ok
              /\ Len(g) = 2 * J + (call.num_steps + 1) * J
              /\ \A k \in 1..Len(g) :
                    g[k].keys[1].chr \in {"q", "v"} => g[k].keys[1].index = 0
              /\ \A k \in 1..Len(g) :
                    g[k].keys[1].chr = "T"
                    => g[k].keys[1].index \in 0..call.num_steps
              /\ \A idx \in 1..J :
                    /\ PinsOnce(g, JointAngleKey(JointIdAt(idx), 0),
                                call.joint_angles[idx])
                    /\ PinsOnce(g, JointVelKey(JointIdAt(idx), 0),
                                call.joint_vels[idx])
                    /\ \A t \in 0..call.num_steps :
                          PinsOnce(g, TorqueKey(JointIdAt(idx), t),
                                   call.torques_seq[t + 1][idx])

C20_Witness ==
    /\ call.op = "trajectoryFDPriors" /\ ~TrajectoryMismatch
    /\ robot = SerialArmB /\ call.num_steps = MaxSteps
    /\ ret.ok /\ Len(ret.graph) = 2 * 2 + (MaxSteps + 1) * 2
    /\ call.torques_seq[1] # call.torques_seq[2]

C20_WitnessForward ==
    /\ call.op = "forwardDynamicsPriors" /\ ~ForwardMismatch
    /\ robot = SerialArmB /\ call.t = MaxTime
    /\ ret.ok /\ Len(ret.graph) = 6

(***************************************************************************)
(* Claims about sequences of builder calls (SpecSequence).                 *)
(***************************************************************************)
\* what the call c returns on robot r when it is the only call made
ResultAlone(c, r) ==
    CASE c.op = "qFactors" -> Returned(qFactors(r, c.t))
      [] c.op = "vFactors" -> Returned(vFactors(r, c.t))
      [] c.op = "aFactors" -> Returned(aFactors(r, c.t))
      [] c.op = "dynamicsFactors" ->
            dynamicsFactors(r, c.t, c.gravity, c.planar_axis)
      [] c.op = "dynamicsFactorGraph" ->
            dynamicsFactorGraph(r, c.t, c.gravity, c.planar_axis)
      [] c.op = "collocationFactors" ->
            collocationFactors(r, c.t, c.dt, c.collocation)
      [] c.op = "trajectoryFG" ->
            trajectoryFG(r, c.num_steps, c.dt, c.collocation, FALSE, FALSE)
      [] c.op = "forwardDynamicsPriors" ->
            forwardDynamicsPriors(r, c.t, c.joint_angles, c.joint_vels,
                                  c.torques, 0)
      [] c.op = "zeroValues" ->
            IF zeroValues(r, c.t).ok THEN Returned(<<>>)
            ELSE Thrown(zeroValues(r, c.t).what)

ConstraintSetAlone(c, r) ==
    IF c.op = "trajectoryFG"
    THEN trajectoryFG(r, c.num_steps, c.dt, c.collocation, c.gravity,
                      c.planar_axis)
    ELSE dynamicsFactorGraph(r, c.t, c.gravity, c.planar_axis)

\* C13: when graph-building calls over one robot are interleaved in any
\* order, every step changes the frame of one call only and leaves the
\* robot as it is, and each call that has finished has returned (or thrown)
\* what it returns (or throws) when run alone.
C13_Interleaved ==
    /\ [](\A p \in Callers :
            ret[p].done
            => /\ ret[p].ok = ConstraintSetAlone(call[p], robot).ok
               /\ ret[p].graph = ConstraintSetAlone(call[p], robot).graph)
    /\ [][/\ robot' = robot
          /\ \A p, q \in Callers :
                (p # q /\ ret'[p] # ret[p]) => ret'[q] = ret[q]]_vars

\* both calls have returned, each after steps of the other
C13_Witness ==
    /\ robot = SerialArm
    /\ \A p \in Callers : ret[p].done /\ ret[p].ok
    /\ call[1].op = "trajectoryFG" /\ call[1].num_steps = MaxSteps
    /\ call[2].op = "trajectoryFG" /\ call[2].num_steps = 1
    /\ call[1].collocation # call[2].collocation
    /\ Len(ret[1].graph) > Len(ret[2].graph)

(***************************************************************************)
(* Claims about the robot structure (SpecStructure).                       *)
(***************************************************************************)
SeqSet(s) == {s[k] : k \in 1..Len(s)}
NoRepeats(s) == Cardinality(SeqSet(s)) = Len(s)

ExtractedLink(name) == CHOOSE l \in SeqSet(ret.links) : l.name = name

\* the link's parent (child) joints are the described joints having it as
\* child (parent), each with its parent (child) link
AdjacencyOf(link, described) ==
    /\ NoRepeats(link.parentJoints) /\ NoRepeats(link.childJoints)
    /\ SeqSet(link.parentJoints)
       = {j.name : j \in {j \in SeqSet(described) : j.child = link.name}}
    /\ SeqSet(link.childJoints)
       = {j.name : j \in {j \in SeqSet(described) : j.parent = link.name}}
    /\ Len(link.parentLinks) = Len(link.parentJoints)
    /\ Len(link.childLinks) = Len(link.childJoints)
    /\ \A k \in 1..Len(link.parentJoints) :
          \E j \in SeqSet(described) :
             j.name = link.parentJoints[k] /\ j.parent = link.parentLinks[k]
    /\ \A k \in 1..Len(link.childJoints) :
          \E j \in SeqSet(described) :
             j.name = link.childJoints[k] /\ j.child = link.childLinks[k]
    /\ Len(link.joints) = Len(link.parentJoints) + Len(link.childJoints)

\* what the loop test expects of the four-bar description
FourBarExpected ==
    /\ Len(ret.links) = 5 /\ Len(ret.joints) = 5
    /\ SeqSet(ExtractedLink("l1").parentLinks) = {"l0", "l4"}
    /\ SeqSet(ExtractedLink("l1").parentJoints) = {"j0", "j4"}
    /\ ExtractedLink("l1").childLinks = <<"l2">>
    /\ ExtractedLink("l1").childJoints = <<"j1">>
    /\ Len(ExtractedLink("l1").joints) = 3
    /\ ExtractedLink("l2").parentLinks = <<"l1">>
    /\ ExtractedLink("l2").parentJoints = <<"j1">>
    /\ ExtractedLink("l2").childLinks = <<"l3">>
    /\ ExtractedLink("l2").childJoints = <<"j2">>
    /\ ExtractedLink("l3").parentLinks = <<"l2">>
    /\ ExtractedLink("l3").parentJoints = <<"j2">>
    /\ ExtractedLink("l3").childLinks = <<"l4">>
    /\ ExtractedLink("l3").childJoints = <<"j3">>
    /\ ExtractedLink("l4").parentLinks = <<"l3">>
    /\ ExtractedLink("l4").parentJoints = <<"j3">>
    /\ ExtractedLink("l4").childLinks = <<"l1">>
    /\ ExtractedLink("l4").childJoints = <<"j4">>
    /\ \A name \in {"l2", "l3", "l4"} : Len(ExtractedLink(name).joints) = 2

\* C14: structural extraction returns one link per described link and one
\* joint per described joint; every link's parent joints are exactly the
\* joints having it as child (with their parent links), its child joints
\* exactly the joints having it as parent (with their child links), and
\* getJoints() has |parent joints| + |child joints| entries; for the
\* four-bar description (a ring of joints) the links are as the loop test
\* expects.
C14_ExtractionAdjacency ==
    (call.op = "extract_structure_from_urdf" /\ ret.ok)
    => /\ Names(ret.links) = call.urdf.links
       /\ Names(ret.joints) = Names(call.urdf.joints)
       /\ \A k \in 1..Len(ret.links) :
             AdjacencyOf(ret.links[k], call.urdf.joints)
       /\ call.urdf = FourBar => FourBarExpected

C14_Witness ==
    /\ call.op = "extract_structure_from_urdf" /\ ret.ok
    /\ call.urdf = FourBar
    /\ Len(ExtractedLink("l1").parentJoints) = 2

\* the robot's joints whose endpoints are the two links of the query
Connecting == {j \in SeqSet(robot.joints) : {j.parent, j.child} = {call.l1, call.l2}}

\* C15: getJointBetweenLinks(l1, l2) returns the one joint whose endpoints
\* are l1 and l2 when exactly one exists, the same for (l2, l1), and fails
\* with NoSuchJoint when no joint connects the two links; the query leaves
\* the robot unchanged.
C15_JointBetweenLinks ==
    /\ [](call.op = "getJointBetweenLinks"
          => /\ Cardinality(Connecting) = 1
                => /\ ret.ok
                   /\ \A j \in Connecting : ret.joint = j.name
                   /\ ret = getJointBetweenLinks(robot, call.l2, call.l1)
             /\ Connecting = {}
                => /\ ~ret.ok /\ ret.what = "NoSuchJoint"
                   /\ ret = getJointBetweenLinks(robot, call.l2, call.l1))
    /\ [][call'.op = "getJointBetweenLinks" => robot' = robot]_vars

\* the joint is asked for from its child to its parent
C15_Witness ==
    /\ call.op = "getJointBetweenLinks"
    /\ \E j \in Connecting : j.child = call.l1 /\ j.parent = call.l2
    /\ Cardinality(Connecting) = 1
    /\ ret.ok

C15_WitnessNoSuchJoint ==
    /\ call.op = "getJointBetweenLinks"
    /\ call.l1 # call.l2 /\ Connecting = {}
    /\ ~ret.ok

JointsFrom(parent, link) ==
    {j \in SeqSet(robot.joints) : j.parent = parent /\ j.child = link}

ParentsOf(link) == {j.parent : j \in {j \in SeqSet(robot.joints) : j.child = link}}

\* the angle map with every absent joint entered at its rest coordinate (0)
WithRestAngles(angles) ==
    [name \in {j.name : j \in SeqSet(robot.joints)} |->
        IF name \in DOMAIN angles THEN angles[name] ELSE 0]

\* C17: linkTransforms(angleMap) has exactly one outer entry per link of the
\* robot and, in the inner map of a link, exactly one entry per parent link
\* (none for a link without parents); the result equals the result for the
\* map in which every absent joint is entered at its rest coordinate, with
\* no map every entry is its joint's stored rest transform, and the entry
\* of a parent joined by one joint is that joint's rest transform turned by
\* that joint's coordinate alone.
C17_LinkTransforms ==
    call.op = "linkTransforms"
    => LET angles == call.joint_name_to_angle
           T == ret.transforms
       IN  /\ DOMAIN T = {l.name : l \in SeqSet(robot.links)}
           /\ \A link \in DOMAIN T : DOMAIN T[link] = ParentsOf(link)
           /\ T = linkTransforms(robot, WithRestAngles(angles))
           /\ \A link \in DOMAIN T : \A parent \in DOMAIN T[link] :
                 \A j \in JointsFrom(parent, link) :
                    /\ Cardinality(JointsFrom(parent, link)) = 1
                       => T[link][parent]
                          = [rest |-> j.name,
                             turned |-> WithRestAngles(angles)[j.name]]
                    /\ DOMAIN angles = {}
                       => \E i \in JointsFrom(parent, link) :
                             T[link][parent] = [rest |-> i.name, turned |-> 0]

\* a two-parent link, one joint turned and the other absent from the map
C17_Witness ==
    /\ call.op = "linkTransforms"
    /\ \E link \in DOMAIN ret.transforms :
          /\ Cardinality(DOMAIN ret.transforms[link]) = 2
          /\ \E p, q \in DOMAIN ret.transforms[link] :
                /\ ret.transforms[link][p].turned = 1
                /\ ret.transforms[link][q].turned = 0
    /\ Cardinality(DOMAIN call.joint_name_to_angle) = 1
    /\ \E link \in DOMAIN ret.transforms : ret.transforms[link] = <<>>

\* every link of the description is joined to the first (base) link: each
\* set of links holding the base and not all links has a joint leaving it
JoinedToBase(urdf) ==
    \A S \in SUBSET SeqSet(urdf.links) :
        (urdf.links[1] \in S /\ S # SeqSet(urdf.links))
        => \E j \in SeqSet(urdf.joints) :
              \/ j.parent \in S /\ j.child \in SeqSet(urdf.links) \ S
              \/ j.child \in S /\ j.parent \in SeqSet(urdf.links) \ S

UnknownLinkNamed(urdf) ==
    \E j \in SeqSet(urdf.joints) :
        j.parent \notin SeqSet(urdf.links) \/ j.child \notin SeqSet(urdf.links)

\* C18: building a robot from a description fails with MalformedStructure
\* and produces no robot if a joint names a parent or child link that is
\* not in the link set or if a link is not joined to the base by a path of
\* joints; otherwise a robot is produced and every joint's parent and child
\* are links of the robot.
C18_MalformedStructure ==
    /\ (call.op = "extract_structure_from_urdf" /\ UnknownLinkNamed(call.urdf))
       => (~ret.ok /\ ret.what = "MalformedStructure" /\ robot = NoRobot)
    /\ (call.op = "extract_structure_from_urdf" /\ ~UnknownLinkNamed(call.urdf))
       => ret.ok
    /\ (call.op = "UniversalRobot" /\ ~JoinedToBase(call.urdf))
       => (~ret.ok /\ ret.what = "MalformedStructure" /\ robot = NoRobot)
    /\ (call.op = "UniversalRobot" /\ JoinedToBase(call.urdf))
       => /\ ret.ok
          /\ Names(robot.links) = call.urdf.links
          /\ \A j \in SeqSet(robot.joints) :
                {j.parent, j.child} \subseteq SeqSet(Names(robot.links))

\* a description whose last link no joint reaches
C18_Witness ==
    /\ call.op = "UniversalRobot"
    /\ ~JoinedToBase(call.urdf)
    /\ Len(call.urdf.joints) > 0
    /\ ~ret.ok /\ robot = NoRobot

C18_WitnessUnknownLink ==
    /\ call.op = "extract_structure_from_urdf"
    /\ UnknownLinkNamed(call.urdf)
    /\ ~ret.ok

(***************************************************************************)
(* Claims about the fixed-link priors (Spec).                              *)
(***************************************************************************)
\* the priors of the returned graph on exactly the key, with their data
PriorDataOn(key) ==
    [k \in {k \in 1..Len(ret.graph) :
              ret.graph[k].type = "PriorFactor" /\ ret.graph[k].keys = <<key>>}
     |-> ret.graph[k].data]

\* exactly one prior on the key, holding the data
OnePrior(key, data) ==
    /\ Cardinality(DOMAIN PriorDataOn(key)) = 1
    /\ \A k \in DOMAIN PriorDataOn(key) : PriorDataOn(key)[k] = data

\* C19: for every robot and time index t, the per-instant constraint set
\* holds for each fixed link i exactly one prior pinning PoseKey(i, t) to
\* the link's fixed pose, one pinning TwistKey(i, t) to zero and one pinning
\* TwistAccelKey(i, t) to zero, and no prior on the pose, twist or
\* acceleration of a link that is not fixed.
C19_FixedLinkPriors ==
    (call.op = "dynamicsFactorGraph" /\ ret.ok)
    => /\ \A a \in 1..Len(robot.links) :
             LET link == robot.links[a]
             IN  IF link.fixed
                 THEN /\ OnePrior(PoseKey(link.id, call.t), "getFixedPose")
                      /\ OnePrior(TwistKey(link.id, call.t), "Zero")
                      /\ OnePrior(TwistAccelKey(link.id, call.t), "Zero")
                 ELSE /\ DOMAIN PriorDataOn(PoseKey(link.id, call.t)) = {}
                      /\ DOMAIN PriorDataOn(TwistKey(link.id, call.t)) = {}
                      /\ DOMAIN PriorDataOn(TwistAccelKey(link.id, call.t)) = {}
       /\ \A k \in 1..Len(ret.graph) :
             (ret.graph[k].type = "PriorFactor"
              /\ ret.graph[k].keys[1].chr \in {"p", "V", "A"})
             => \E a \in 1..Len(robot.links) :
                   /\ robot.links[a].fixed
                   /\ ret.graph[k].keys[1].label = robot.links[a].id
                   /\ ret.graph[k].keys[1].index = call.t

\* a robot with a fixed and a moving link, both carrying joints
C19_Witness ==
    /\ call.op = "dynamicsFactorGraph" /\ ret.ok /\ call.t = MaxTime
    /\ \E a, b \in 1..Len(robot.links) :
          /\ robot.links[a].fixed /\ ~robot.links[b].fixed
          /\ OnePrior(PoseKey(robot.links[a].id, call.t), "getFixedPose")
          /\ Len(robot.links[b].joints) > 0
    /\ Len(robot.joints) = MaxJoints

(***************************************************************************)
(* Claims about zeroValuesTrajectory (SpecValues).                         *)
(***************************************************************************)
\* the variables of one instant, read off the robot's link and joint lists
InstantKeys(r, t) ==
    UNION {{PoseKey(l.id, t), TwistKey(l.id, t), TwistAccelKey(l.id, t)} :
             l \in Range(r.links)}
    \cup UNION {{WrenchKey(j.parent, j.id, t), WrenchKey(j.child, j.id, t),
                 TorqueKey(j.id, t), JointAngleKey(j.id, t),
                 JointVelKey(j.id, t), JointAccelKey(j.id, t)} :
                  j \in Range(r.joints)}

TrajectoryKeys(r, num_steps) == UNION {InstantKeys(r, t) : t \in 0..num_steps}

BuiltTrajectory == call.op = "zeroValuesTrajectory" /\ ret.ok

\* C21: zeroValuesTrajectory(robot, N, P) assigns exactly the per-instant
\* variables of every t in 0..N plus, when P > 0, the phase-duration
\* variables PhaseKey(0)..PhaseKey(P-1), and no phase variable when P = 0.
C21_TrajectoryVariableSet ==
    BuiltTrajectory
    => DOMAIN values
       = TrajectoryKeys(robot, call.num_steps)
         \cup {PhaseKey(k) : k \in 0..(call.phase - 1)}

\* What holds of the code: the phase variables are PhaseKey(0)..PhaseKey(P),
\* one more than the P phases, when P > 0.
TrajectoryVariableSetOfCode ==
    BuiltTrajectory
    => DOMAIN values
       = TrajectoryKeys(robot, call.num_steps)
         \cup (IF call.phase > 0 THEN {PhaseKey(k) : k \in 0..call.phase}
               ELSE {})

TrajectoryVariableSetReached ==
    /\ BuiltTrajectory /\ call.phase = 2 /\ call.num_steps = 2
    /\ JointCount(robot) = 2
    /\ PhaseKey(2) \in DOMAIN values

(***************************************************************************)
(* Claims about the robot's name-keyed queries (SpecStructure).            *)
(***************************************************************************)
AttributeOfQuery ==
    [screwAxes |-> "screwAxis", jointLowerLimits |-> "jointLowerLimit",
     jointUpperLimits |-> "jointUpperLimit",
     jointLimitThresholds |-> "jointLimitThreshold"]

NameQueries == DOMAIN AttributeOfQuery \cup {"getLinkByName", "getJointByName"}

\* one entry per joint, under the joint's name, holding the joint's own
\* attribute; the link or joint found by name carries that name
NameKeyedResults ==
    /\ call.op \in DOMAIN AttributeOfQuery
       => /\ DOMAIN ret.map = SeqSet(Names(robot.joints))
          /\ Cardinality(DOMAIN ret.map) = JointCount(robot)
          /\ \A k \in 1..JointCount(robot) :
                ret.map[robot.joints[k].name]
                = [attribute |-> AttributeOfQuery[call.op],
                   of |-> robot.joints[k].name]
    /\ call.op = "getLinkByName"
       => ret.link \in SeqSet(robot.links) /\ ret.link.name = call.name
    /\ call.op = "getJointByName"
       => ret.joint \in SeqSet(robot.joints) /\ ret.joint.name = call.name

QueryLeavesRobot == call'.op \in NameQueries => robot' = robot

\* C22: jointLowerLimits, jointUpperLimits, jointLimitThresholds and
\* screwAxes return a map with exactly one entry per joint, keyed by the
\* joint's name and holding that joint's own attribute; getLinkByName(n) and
\* getJointByName(n) return the link / joint named n; no query changes the
\* robot.
C22_NameKeyedQueries == []NameKeyedResults /\ [][QueryLeavesRobot]_vars

C22_Witness ==
    /\ call.op = "jointUpperLimits"
    /\ JointCount(robot) = 5
    /\ ret.map["j4"] = [attribute |-> "jointUpperLimit", of |-> "j4"]
    /\ ret.map["j0"] = [attribute |-> "jointUpperLimit", of |-> "j0"]

C22_WitnessByName ==
    /\ call.op = "getJointByName" /\ call.name = "j1"
    /\ JointCount(robot) = 1
    /\ ret.joint = DescribedJoint("j1", "l1", "l2")

(***************************************************************************)
(* Claims about the per-joint kinematic constraints (Spec).                *)
(***************************************************************************)
\* how many constraints of the type the set holds over exactly these keys
CountOver(g, type, keys) ==
    Cardinality({k \in 1..Len(g) : g[k].type = type /\ g[k].keys = keys})

CountOfType(g, type) == Cardinality({k \in 1..Len(g) : g[k].type = type})

KinematicTypes == {"PoseFactor", "TwistFactor", "TwistAccelFactor"}

\* C23: for every joint j with parent a and child b, the per-instant set
\* holds exactly one pose constraint over (Pose a, Pose b, q j), one twist
\* constraint over (Twist a, Twist b, q j, v j) and one acceleration
\* constraint over (Twist b, TwistAccel a, TwistAccel b, q j, v j, a j), all
\* at time t; the auxiliary twist is the child's; cyclic mechanisms included.
C23_JointKinematics ==
    (call.op = "dynamicsFactorGraph" /\ ret.ok)
    => /\ \A k \in 1..JointCount(robot) :
            LET j == robot.joints[k].id
                a == robot.joints[k].parent
                b == robot.joints[k].child
                t == call.t
            IN  /\ CountOver(ret.graph, "PoseFactor",
                             <<PoseKey(a, t), PoseKey(b, t), JointAngleKey(j, t)>>) = 1
                /\ CountOver(ret.graph, "TwistFactor",
                             <<TwistKey(a, t), TwistKey(b, t), JointAngleKey(j, t),
                               JointVelKey(j, t)>>) = 1
                /\ CountOver(ret.graph, "TwistAccelFactor",
                             <<TwistKey(b, t), TwistAccelKey(a, t),
                               TwistAccelKey(b, t), JointAngleKey(j, t),
                               JointVelKey(j, t), JointAccelKey(j, t)>>) = 1
       /\ \A type \in KinematicTypes :
            CountOfType(ret.graph, type) = JointCount(robot)
       /\ \A k \in 1..Len(ret.graph) :
            ret.graph[k].type \in KinematicTypes
            => \A key \in Range(ret.graph[k].keys) : key.index = call.t

\* a closed loop of three links with a fourth joint doubling one side, at
\* the later time index
C23_Witness ==
    /\ call.op = "dynamicsFactorGraph" /\ ret.ok /\ call.t = MaxTime
    /\ LinkCount(robot) = 3 /\ JointCount(robot) >= 3
    /\ \A a, b \in 1..3 :
          a # b => \E k \in 1..JointCount(robot) :
                      {robot.joints[k].parent, robot.joints[k].child}
                      = {robot.links[a].id, robot.links[b].id}
    /\ CountOfType(ret.graph, "TwistAccelFactor") = JointCount(robot)

(***************************************************************************)
(* Claims about the per-joint dynamics constraints (Spec).                 *)
(***************************************************************************)
\* the first joint of the robot hangs from a fixed link
FirstJointOnFixed(r) ==
    /\ JointCount(r) >= 1
    /\ \E a \in 1..Len(r.links) :
          r.links[a].fixed /\ r.links[a].id = r.joints[1].parent

\* C24: for every joint j with parent a and child b, dynamicsFactors emits
\* exactly one wrench-equivalence constraint over (Wrench(a,j), Wrench(b,j),
\* q j), fixed links included, and exactly one torque constraint over
\* (Wrench(b,j), Torque j); it emits one planar constraint on Wrench(b,j) per
\* joint if and only if a planar axis is supplied, which raises the count by
\* exactly J.
C24_JointDynamics ==
    (call.op = "dynamicsFactors" /\ ret.ok)
    => /\ \A k \in 1..JointCount(robot) :
            LET j == robot.joints[k].id
                a == robot.joints[k].parent
                b == robot.joints[k].child
                t == call.t
            IN  /\ CountOver(ret.graph, "WrenchEquivalenceFactor",
                             <<WrenchKey(a, j, t), WrenchKey(b, j, t),
                               JointAngleKey(j, t)>>) = 1
                /\ CountOver(ret.graph, "TorqueFactor",
                             <<WrenchKey(b, j, t), TorqueKey(j, t)>>) = 1
                /\ call.planar_axis
                   => CountOver(ret.graph, "WrenchPlanarFactor",
                                <<WrenchKey(b, j, t)>>) >= 1
       /\ CountOfType(ret.graph, "WrenchEquivalenceFactor") = JointCount(robot)
       /\ CountOfType(ret.graph, "TorqueFactor") = JointCount(robot)
       /\ CountOfType(ret.graph, "WrenchPlanarFactor")
          = (IF call.planar_axis THEN JointCount(robot) ELSE 0)
       /\ Len(ret.graph)
          = (LinkCount(robot) - FixedCount(robot)) + 2 * JointCount(robot)
            + (IF call.planar_axis THEN JointCount(robot) ELSE 0)

C24_Witness ==
    /\ call.op = "dynamicsFactors" /\ ret.ok /\ call.planar_axis
    /\ FirstJointOnFixed(robot) /\ JointCount(robot) = 3
    /\ CountOfType(ret.graph, "WrenchPlanarFactor") = 3
    /\ CountOfType(ret.graph, "WrenchEquivalenceFactor") = 3

C24_WitnessNoAxis ==
    /\ call.op = "dynamicsFactors" /\ ret.ok /\ ~call.planar_axis
    /\ FirstJointOnFixed(robot) /\ JointCount(robot) = 3
    /\ CountOfType(ret.graph, "WrenchPlanarFactor") = 0

(***************************************************************************)
(* Claims relating the assigned and the constrained variables (SpecValues).*)
(***************************************************************************)
\* a joint is listed on a link exactly when the link is its parent or
\* child, and no joint joins a link to itself
IncidenceAgrees(r) ==
    /\ \A a \in 1..Len(r.links) :
          Range(r.links[a].joints)
          = {r.joints[k].id : k \in JointsAt(r, r.links[a])}
    /\ \A k \in 1..Len(r.joints) : r.joints[k].parent # r.joints[k].child

GraphKeys(g) == UNION {Range(g[k].keys) : k \in 1..Len(g)}

KeysComparable(r) == IncidenceAgrees(r) /\ DegreesSupported(r)

\* C25: for every robot whose incident-joint lists agree with the joint list
\* and whose non-fixed links have at most 4 joints, zeroValues(robot, t)
\* inserts no key twice and assigns exactly the keys the constraints of
\* dynamicsFactorGraph(robot, t) refer to.
C25_AssignedEqualsConstrained ==
    /\ (call.op = "zeroValues" /\ KeysComparable(robot)) => ret.ok
    /\ (call.op = "dynamicsFactorGraph" /\ KeysComparable(robot))
       => /\ ret.ok
          /\ DOMAIN values = GraphKeys(ret.graph)

\* What holds of the code: whenever zeroValues returned an assignment, its
\* keys are those of the constraints.
AssignedEqualsConstrainedWhenBuilt ==
    (call.op = "dynamicsFactorGraph" /\ KeysComparable(robot) /\ values # NoValues)
    => /\ ret.ok
       /\ DOMAIN values = GraphKeys(ret.graph)

AssignedEqualsConstrainedReached ==
    /\ call.op = "dynamicsFactorGraph" /\ KeysComparable(robot)
    /\ JointCount(robot) = 3 /\ call.t = MaxTime
    /\ Cardinality(DOMAIN values) = 3 * 3 + 6 * 3
    /\ DOMAIN values = GraphKeys(ret.graph)

(***************************************************************************)
(* Claims about prior building followed by read-back (SpecArguments).      *)
(***************************************************************************)
FirstEntries(vec) == SubSeq(vec, 1, JointCount(robot))

\* the joint variable a read-back helper reads for the joint id
ReadKey(op, j, t) ==
    CASE op = "jointAngles" -> JointAngleKey(j, t)
      [] op = "jointVels" -> JointVelKey(j, t)
      [] op = "jointAccels" -> JointAccelKey(j, t)

\* C26: forwardDynamicsPriors pins the variables of the joint at position
\* idx, keyed by that joint's id, to q[idx], v[idx], tau[idx]; jointAngles,
\* jointVels and jointAccels return at position idx the value stored under
\* the id of the joint at position idx; so on an assignment satisfying the
\* priors jointAngles returns q and jointVels returns v.
C26_PriorReadBack ==
    /\ (call.op = "optimize" /\ ret.ok)
       => \A idx \in 1..JointCount(robot) :
            /\ values[JointAngleKey(JointIdAt(idx), call.t)].v
               = call.joint_angles[idx]
            /\ values[JointVelKey(JointIdAt(idx), call.t)].v
               = call.joint_vels[idx]
            /\ values[TorqueKey(JointIdAt(idx), call.t)].v = call.torques[idx]
    /\ call.op \in ReadOps
       => /\ ret.ok
          /\ Len(ret.vec) = JointCount(robot)
          /\ \A idx \in 1..JointCount(robot) :
                ret.vec[idx] = values[ReadKey(call.op, JointIdAt(idx), call.t)].v
          /\ call.op = "jointAngles" => ret.vec = FirstEntries(call.joint_angles)
          /\ call.op = "jointVels" => ret.vec = FirstEntries(call.joint_vels)

\* the two-joint arm whose joint ids run against the positions
C26_Witness ==
    /\ call.op = "jointAngles" /\ ret.ok
    /\ JointCount(robot) = 2 /\ JointIdAt(1) = 1 /\ JointIdAt(2) = 0
    /\ call.joint_angles = <<2, 3>> /\ ret.vec = <<2, 3>>
    /\ values[JointAngleKey(0, call.t)].v = 3

C26_WitnessVels ==
    /\ call.op = "jointVels" /\ ret.ok
    /\ JointCount(robot) = 2 /\ JointIdAt(1) = 1
    /\ call.joint_vels = <<1, 2>> /\ ret.vec = <<1, 2>>
    /\ call.joint_angles = <<2, 3>>

(***************************************************************************)
(* Claims about the time indices of the multi-phase assembly (SpecPhases). *)
(***************************************************************************)
TotalSteps == SumSeq(phase_steps)

\* the time indices carried by the per-instant constraints of the result
InstantTimes ==
    {ret.graph[k].keys[1].index :
        k \in {k \in 1..Len(ret.graph) :
                 ret.graph[k].type \notin {"ExpressionFactor", "ContactFactor"}}}

\* the time index of the boundary after phase p: the steps up to there
BoundaryTimes == {PhaseStart(p + 1) : p \in 1..(Len(robots) - 1)}

CollocationsOf(g) == {k \in 1..Len(g) : g[k].type = "ExpressionFactor"}

StepKeys(f) == {key \in ExprKeys(f.expr) : key.chr # "t"}
PhaseKeys(f) == {key \in ExprKeys(f.expr) : key.chr = "t"}

\* the (t, phase) of every collocation constraint: its earlier time index
\* and the index of its phase key
CollocationLinks ==
    {<<CHOOSE t \in {key.index : key \in StepKeys(ret.graph[k])} :
          \A key \in StepKeys(ret.graph[k]) : key.index \in {t, t + 1},
       (CHOOSE key \in PhaseKeys(ret.graph[k]) : TRUE).index>> :
        k \in CollocationsOf(ret.graph)}

\* the steps of the phases whose robot has a joint, each with its phase
ExpectedLinks ==
    UNION {{<<PhaseStart(p) + i - 1, p - 1>> : i \in 1..phase_steps[p]} :
              p \in {p \in 1..Len(robots) : JointCount(robots[p]) > 0}}

BuiltPhases ==
    /\ call.op = "multiPhaseTrajectoryFG" /\ ret.ok
    /\ call.collocation \in {"Euler", "Trapezoidal"}

PhaseTimesAgree ==
    /\ \A t \in InstantTimes : t <= TotalSteps
    /\ TotalSteps \in InstantTimes
    /\ InstantTimes \cup BoundaryTimes = 0..TotalSteps
    /\ InstantTimes \cap BoundaryTimes = {}
    /\ \A k \in CollocationsOf(ret.graph) :
          /\ Cardinality(PhaseKeys(ret.graph[k])) = 1
          /\ \E t \in 0..(TotalSteps - 1) :
                {key.index : key \in StepKeys(ret.graph[k])} = {t, t + 1}
    /\ CollocationLinks = ExpectedLinks

\* C27: for every list of non-negative phase step counts, the last
\* per-instant set of multiPhaseTrajectoryFG is placed at the sum S of the
\* step counts, every time index in 0..S receives exactly one per-instant or
\* transition set, and the collocation sets link exactly the pairs (t, t+1),
\* t = 0..S-1, each keyed by the phase containing step t.
C27_PhaseTimeIndices == BuiltPhases => PhaseTimesAgree

\* What holds of the code: the same, when every phase has at least one step.
PhaseTimesAgreeWhenPositive ==
    (BuiltPhases /\ \A p \in 1..Len(phase_steps) : phase_steps[p] >= 1)
    => PhaseTimesAgree

PhaseTimesAgreeReached ==
    /\ BuiltPhases /\ phase_steps = <<2, 1>>
    /\ robots = <<SimpleArm, FreeArm>>
    /\ InstantTimes = {0, 1, 3} /\ BoundaryTimes = {2}
    /\ CollocationLinks = {<<0, 0>>, <<1, 0>>, <<2, 1>>}

\* a phase of no step still advances the time index
EmptyPhaseAdvances ==
    /\ BuiltPhases /\ phase_steps = <<0>>
    /\ InstantTimes = {0, 1}

(***************************************************************************)
(* Claims about JointTyped against the builder (SpecJoint).                *)
(***************************************************************************)
JointTypedOps ==
    {"JointTyped::qFactors", "JointTyped::vFactors", "JointTyped::aFactors",
     "JointTyped::dynamicsFactors"}

JointFactorTypes ==
    {"PoseFactor", "TwistFactor", "TwistAccelFactor", "WrenchEquivalenceFactor",
     "TorqueFactor", "WrenchPlanarFactor"}

\* a key of the joint: a joint variable of its id, or a wrench on its id
KeyOfJoint(key, j) ==
    \/ key.chr \in {"q", "v", "a", "T"} /\ key.label = j
    \/ key.chr = "F" /\ key.label % LabelBase = j

\* type and keys of the builder's per-joint constraints of the joint, in
\* the builder's order
BuilderPart(built, j) ==
    LET part == SelectSeq(built, LAMBDA f :
                    /\ f.type \in JointFactorTypes
                    /\ \A key \in Range(f.keys) :
                          key.chr \in {"q", "v", "a", "T", "F"} => KeyOfJoint(key, j))
    IN  [k \in 1..Len(part) |-> <<part[k].type, part[k].keys>>]

TypesAndKeys(g) == [k \in 1..Len(g) |-> <<g[k].type, g[k].keys>>]

\* C28: for a joint with the same id, parent id, child id and t,
\* JointTyped::qFactors, vFactors and aFactors each emit exactly one
\* constraint and JointTyped::dynamicsFactors exactly two (three with a
\* planar axis), over the same keys in the same order as the builder's
\* constraints for that joint.
C28_JointTypedAgrees ==
    call.op \in JointTypedOps
    => /\ ret.ok
       /\ TypesAndKeys(ret.graph) = BuilderPart(call.built, call.joint.id)
       /\ Len(ret.graph)
          = (IF call.op = "JointTyped::dynamicsFactors"
             THEN (IF call.planar_axis THEN 3 ELSE 2)
             ELSE 1)

\* the second joint of the arm whose joint ids run against the positions
C28_Witness ==
    /\ call.op = "JointTyped::aFactors" /\ robot = SerialArmB
    /\ call.joint = robot.joints[2] /\ call.t = MaxTime
    /\ Len(call.built) = 3 /\ Len(ret.graph) = 1
    /\ ret.graph[1].keys[1] = TwistKey(2, MaxTime)

C28_WitnessPlanar ==
    /\ call.op = "JointTyped::dynamicsFactors" /\ call.planar_axis
    /\ robot = ClosedLoop /\ call.joint = robot.joints[3]
    /\ Len(ret.graph) = 3

(***************************************************************************)
(* Claims about the assembly of the per-instant set (SpecContacts).        *)
(***************************************************************************)
\* the four families, one after the other
FamiliesInOrder(r, t, gravity, planar_axis) ==
    qFactors(r, t) \o vFactors(r, t) \o aFactors(r, t)
    \o dynamicsFactors(r, t, gravity, planar_axis).graph

\* the same call with the other gravity argument
WithOtherGravity ==
    dynamicsFactorGraphWithContacts(robot, call.t, ~call.gravity,
                                    call.planar_axis, call.contacts)

\* C29: dynamicsFactorGraph(robot, t, gravity, planar_axis, contacts) is the
\* concatenation of qFactors, vFactors, aFactors and dynamicsFactors in this
\* order, is the same for every contacts argument, present or absent, and
\* gravity changes only the wrench-balance constraints, never the number of
\* constraints or their keys.
C29_InstantAssembly ==
    call.op = "dynamicsFactorGraph"
    => /\ ret.ok = dynamicsFactors(robot, call.t, call.gravity,
                                   call.planar_axis).ok
       /\ ret.ok => ret.graph = FamiliesInOrder(robot, call.t, call.gravity,
                                                call.planar_axis)
       /\ \A contacts \in ContactArguments :
             dynamicsFactorGraphWithContacts(robot, call.t, call.gravity,
                                             call.planar_axis, contacts) = ret
       /\ WithOtherGravity.ok = ret.ok
       /\ Len(WithOtherGravity.graph) = Len(ret.graph)
       /\ \A k \in 1..Len(ret.graph) :
             /\ WithOtherGravity.graph[k].type = ret.graph[k].type
             /\ WithOtherGravity.graph[k].keys = ret.graph[k].keys
             /\ ret.graph[k].type # "WrenchFactor"
                => WithOtherGravity.graph[k] = ret.graph[k]

C29_Witness ==
    /\ call.op = "dynamicsFactorGraph" /\ call.contacts = Contacts(<<0, 1>>)
    /\ call.gravity /\ robot = ClosedLoop /\ ret.ok
    /\ Len(ret.graph) = 20
    /\ \E k \in 1..Len(ret.graph) :
          /\ ret.graph[k].type = "WrenchFactor"
          /\ WithOtherGravity.graph[k] # ret.graph[k]

(***************************************************************************)
(* Claims about the printed form of a key (SpecKeys).                      *)
(***************************************************************************)
\* the keys whose printed form is compared: those of every sampled request
\* and the 't' keys of every sampled label
PrintableKeys ==
    {KeyOf(d) : d \in KeyRequests}
    \cup {LabeledSymbol("t", label, t) : label \in TimeLabels, t \in Times}

Printed == call # NoCall /\ ret.text # <<>>

\* C30: print_key renders distinct keys as distinct text: no two different
\* (character, label, index) triples produce the same printed string.
C30_PrintedKeysDistinct ==
    Printed => \A key \in PrintableKeys : print_key(key) = ret.text => key = ret.key

\* link ids of one decimal digit, and 't' labels up to the first "ti" label
PrintsUnambiguously(key) ==
    /\ key.chr = "F" => key.label \div LabelBase < 10
    /\ key.chr = "t" => key.label <= 2

\* What holds of the code: the printed forms of such keys are distinct.
PrintedKeysDistinctInRange ==
    (Printed /\ PrintsUnambiguously(ret.key))
    => \A key \in PrintableKeys :
          (PrintsUnambiguously(key) /\ print_key(key) = ret.text) => key = ret.key

PrintedKeysDistinctReached ==
    /\ Printed /\ call = WrenchKeyCall(2, LabelBase - 4, MaxTime)
    /\ ret.text = <<"F", "2", "1", "2", "_">> \o Decimal(MaxTime) \o <<"\t">>

\* link 1 with joint 12 and link 11 with joint 2 print alike
AdjacentIdsPrintAlike ==
    /\ Printed /\ call = WrenchKeyCall(LabelBase - 5, 2, 0)
    /\ ret.text = print_key(WrenchKey(1, LabelBase - 4, 0))
    /\ ret.text = <<"F", "1", "1", "2", "_", "0", "\t">>

====
